---- MODULE Spec2Model ----
(***************************************************************************)
(* FTP honeypot: the listener's concurrent-session counter, the control    *)
(* session and its verb handlers, the graduated-trust login policy, the    *)
(* virtual filesystem and the persistence gateway they run against.        *)
(*                                                                         *)
(* Option<T> values are modelled as sequences: <<>> is None, <<x>> is      *)
(* Some(x).                                                                *)
(***************************************************************************)
EXTENDS Integers, Sequences, FiniteSets, TLC

\* ---------------------------------------------------------------- bounds
\* largest number_of_tries_before_success explored by Spec
MaxTries == 2
\* number of PASS commands handled in one behaviour of Spec
MaxPass == 4
\* number of PASS commands handled in one behaviour of SpecScenario
MaxScenarioPass == 5
\* number of PASS commands handled in one behaviour of SpecCap
MaxCapPass == 2
\* number of connection tasks that can be alive at once in SpecCap
NumConns == 2
\* largest max_concurrent_users explored by SpecCap
MaxCap == 1

\* ------------------------------------------------------ program constants
\* default of number_of_tries_before_success
DefaultTries == 7
\* default of max_concurrent_users
DefaultMaxConcurrentUsers == 25

\* FTP status codes (enum StatusCode)
ServiceReadyForNewUser == 220
UserNameOkayNeedPassword == 331
UserLoggedInProceed == 230
NotLoggedIn == 530
UserSuccessfulLogout == 221
ServiceNotAvailable == 421
PathnameAvailable == 257
DirectoryCreationFailed == 550
NameSystemType == 215
RequestedFileActionOkayCompleted == 250
CommandNotImplemented == 502
Okay == 200
FileStatusOkay == 150
CommandOkayNotImplemented == 202
ClosingDataConnection == 226
CommandNotImplementedForParameter == 504

VARIABLES
    number_of_tries_before_success, \* Config.number_of_tries_before_success
    max_concurrent_users,           \* Config.max_concurrent_users
    file_upload_real,               \* Config.file_upload_real
    can_be_downloaded,              \* Config.can_be_downloaded
    attackers,                      \* table Attackers: set of rows
    attacker_seq,                   \* auto_increment of Attackers.id
    credentials,                    \* table Credentials: set of rows
    attacker_to_credentials,        \* table AttackersToCredentials: sequence of rows
    generated_files,                \* attacker id -> number of decoy sets copied to disk
    uploaded_files,                 \* table UploadedFiles: sequence of rows
    uploaded_file_seq,              \* auto_increment of UploadedFiles.id
    disk,                           \* paths created under base_save_path besides the decoys
    current_users,                  \* Arc<Mutex<i32>> of the listener
    sess,                           \* connection task -> its position and its Client
    pass_log,                       \* history: one record per PASS command handled
    probe                           \* a filesystem value a function is applied to on its own

vars == <<number_of_tries_before_success, max_concurrent_users,
          file_upload_real, can_be_downloaded, attackers,
          attacker_seq, credentials, attacker_to_credentials, generated_files,
          uploaded_files, uploaded_file_seq, disk,
          current_users, sess, pass_log, probe>>

\* the database and the directory tree under base_save_path
dbvars == <<attackers, attacker_seq, credentials, attacker_to_credentials,
            generated_files, uploaded_files, uploaded_file_seq, disk>>

confvars == <<number_of_tries_before_success, max_concurrent_users,
              file_upload_real, can_be_downloaded>>

\* what no handler of a connection task writes
cfgvars == <<confvars, probe>>

\* what the connection tasks work on
taskvars == <<dbvars, current_users, sess, pass_log>>

\* ---------------------------------------------------------------- inputs
Conns == 1..NumConns
\* the one connection task Spec and SpecScenario run
LoginConns == {1}

IPs == {"1.2.3.4", "2.2.2.2"}

Pair(u, p) == [username |-> u, password |-> p]

\* what the clients of Spec send: a small dictionary whose pairs share user
\* names and passwords, and whose pairs both addresses try
Wordlist(ip) ==
    IF ip = "1.2.3.4"
    THEN {Pair("alice", "a"), Pair("alice", "b"), Pair("bob", "a")}
    ELSE {Pair("alice", "a"), Pair("bob", "a")}

\* what the clients of SpecScenario send: the pairs of S1 from 1.2.3.4, x/x
\* from 2.2.2.2
ScenarioWordlist(ip) ==
    IF ip = "1.2.3.4"
    THEN {Pair("alice", "a"), Pair("bob", "b"), Pair("carol", "c"), Pair("dave", "d")}
    ELSE {Pair("x", "x")}

\* what the clients of SpecCap send
CapWordlist(ip) == {Pair("x", "x")}

AttackerIds == 1..(MaxPass + MaxScenarioPass + MaxCapPass)

\* ------------------------------------------------------------ Option<T>
None == <<>>
Some(x) == <<x>>
is_some(o) == o # <<>>
is_none(o) == o = <<>>
unwrap(o) == o[1]

MinId(rows) == CHOOSE r \in rows : \A q \in rows : r.id <= q.id

\* ------------------------------------------------- virtual filesystem
\* number of seed files copied for a new attacker
AmountOfFilesToCopy == 15

\* the file names found in ../default_files
default_files ==
    <<"seed01", "seed02", "seed03", "seed04", "seed05", "seed06", "seed07",
      "seed08", "seed09", "seed10", "seed11", "seed12", "seed13", "seed14",
      "seed15">>

\* get_real_file_path: base_save_path + "/{id}/" + append, append being the
\* names and "/" separators of a path below the directory of the attacker
user_path(attacker_id, append) == <<"base", attacker_id, append>>

\* the copies generate_files makes in {base}/{attacker_id}/
seed_copies(attacker_id) ==
    {user_path(attacker_id, <<default_files[i]>>) : i \in 1..AmountOfFilesToCopy}

\* fs::copy of the i-th chosen seed file into {base}/{attacker_id}/ and the
\* FtpFile parse_to_file_vec builds from it (a decoy: default_file set); the
\* seed files are taken in directory order
generate_files(attacker_id) ==
    [i \in 1..AmountOfFilesToCopy |->
        [name |-> default_files[i], size |-> 1, file_id |-> None,
         default_file |-> Some(user_path(attacker_id, <<default_files[i]>>))]]

generate_node(name, files, dirs) ==
    [decoration |-> name, size |-> 0, files |-> files, dirs |-> dirs]

NoDirs == [n \in {} |-> {}]

\* the fixed skeleton; Rust's ftp_files[a..b] is SubSeq(_, a + 1, b)
new_fs_of_attacker(attacker_id) ==
    LET ftp_files == generate_files(attacker_id)
        sub_node_1 == generate_node("pictures", SubSeq(ftp_files, 1, 1), NoDirs)
        sub_sub_node_1 == generate_node("invoices", SubSeq(ftp_files, 3, 4), NoDirs)
        sub_sub_node_2 == generate_node("private", SubSeq(ftp_files, 6, 9), NoDirs)
        node_1_map == [n \in {"invoices", "private"} |->
                          IF n = "invoices" THEN sub_sub_node_1 ELSE sub_sub_node_2]
        sub_node_2 == generate_node("documents", SubSeq(ftp_files, 11, 13), node_1_map)
        root_map == [n \in {"pictures", "documents"} |->
                          IF n = "pictures" THEN sub_node_1 ELSE sub_node_2]
    IN [root |-> generate_node("root", SubSeq(ftp_files, 14, 14), root_map),
        path |-> <<>>]

\* [String]::join("/"): the names in turn, "/" between them
RECURSIVE join_path(_)
join_path(names) ==
    IF Len(names) <= 1
    THEN names
    ELSE <<Head(names), "/">> \o join_path(Tail(names))

\* str::split('/') over an argument given as its names and its "/" separators;
\* an empty piece is ""
RECURSIVE split(_)
split(s) ==
    IF s = <<>>
    THEN <<"">>
    ELSE IF Head(s) = "/"
    THEN <<"">> \o split(Tail(s))
    ELSE [split(Tail(s)) EXCEPT ![1] = Head(s)]

\* str::split_terminator('/'): a trailing empty piece is dropped
split_terminator(s) ==
    LET pieces == split(s)
    IN IF pieces[Len(pieces)] = ""
       THEN SubSeq(pieces, 1, Len(pieces) - 1)
       ELSE pieces

\* Vec::pop on a path
pop(path) == IF path = <<>> THEN <<>> ELSE SubSeq(path, 1, Len(path) - 1)

\* FtpNode::cd: every component names a child directory
RECURSIVE cd(_, _)
cd(node, path) ==
    IF path = <<>>
    THEN TRUE
    ELSE IF Head(path) \in DOMAIN node.dirs
    THEN cd(node.dirs[Head(path)], Tail(path))
    ELSE FALSE

\* FtpNode::traverse_path: descends while the next component is a child and
\* stops at the deepest node reached
RECURSIVE traverse_path(_, _)
traverse_path(node, path) ==
    IF path # <<>> /\ Head(path) \in DOMAIN node.dirs
    THEN traverse_path(node.dirs[Head(path)], Tail(path))
    ELSE [node |-> node, path |-> path]

\* the tree after a write through the &mut FtpNode traverse_path returns
RECURSIVE traverse_path_mut(_, _, _)
traverse_path_mut(node, path, new_node) ==
    IF path # <<>> /\ Head(path) \in DOMAIN node.dirs
    THEN [node EXCEPT !.dirs = [n \in DOMAIN @ |->
              IF n = Head(path)
              THEN traverse_path_mut(@[n], Tail(path), new_node)
              ELSE @[n]]]
    ELSE new_node

\* mutant: ".." at the root is a failure
RECURSIVE real_cd_rec_strict_parent(_, _, _)
real_cd_rec_strict_parent(root, path_to_move, tmp_path) ==
    IF path_to_move = <<>>
    THEN Some(tmp_path)
    ELSE IF Head(path_to_move) = ".."
    THEN IF tmp_path = <<>>
         THEN None
         ELSE real_cd_rec_strict_parent(root, Tail(path_to_move), pop(tmp_path))
    ELSE IF cd(root, Append(tmp_path, Head(path_to_move)))
    THEN real_cd_rec_strict_parent(root, Tail(path_to_move),
                                   Append(tmp_path, Head(path_to_move)))
    ELSE None

\* FtpFileSystem::real_cd_rec: ".." pops, any other component must name a
\* child of the path resolved so far
RECURSIVE real_cd_rec(_, _, _)
real_cd_rec(root, path_to_move, tmp_path) ==
    IF path_to_move = <<>>
    THEN Some(tmp_path)
    ELSE IF Head(path_to_move) = ".."
    THEN real_cd_rec(root, Tail(path_to_move), pop(tmp_path))
    ELSE IF cd(root, Append(tmp_path, Head(path_to_move)))
    THEN real_cd_rec(root, Tail(path_to_move), Append(tmp_path, Head(path_to_move)))
    ELSE None

\* the part real_cd and resolve_path_as_vec share: a leading "" restarts at
\* the root, then one leading "." is dropped
strip_prefix(file_system, path) ==
    LET absolute == path # <<>> /\ Head(path) = ""
        p1 == IF absolute THEN Tail(path) ELSE path
        p2 == IF p1 # <<>> /\ Head(p1) = "." THEN Tail(p1) ELSE p1
    IN [tmp_path |-> IF absolute THEN <<>> ELSE file_system.path, path |-> p2]

resolve_path_as_vec(file_system, add_path) ==
    LET st == strip_prefix(file_system, add_path)
    IN real_cd_rec(file_system.root, st.path, st.tmp_path)

resolve_path(file_system, path_to_move) ==
    resolve_path_as_vec(file_system, split_terminator(path_to_move))

\* FtpFileSystem::real_cd: the path is overwritten only on success
real_cd(file_system, path_to_move) ==
    LET st == strip_prefix(file_system, path_to_move)
        new_path == real_cd_rec(file_system.root, st.path, st.tmp_path)
    IN IF is_none(new_path)
       THEN [fs |-> file_system, ok |-> FALSE]
       ELSE [fs |-> [file_system EXCEPT !.path = unwrap(new_path)], ok |-> TRUE]

cd_as_str(file_system, path_to_move) ==
    real_cd(file_system, split_terminator(path_to_move))

\* FtpNode as generate_dir builds it
generate_dir(dir_name, size) ==
    [decoration |-> dir_name, size |-> size, files |-> <<>>, dirs |-> NoDirs]

\* the bytes of the names that occur in the model (a String is its bytes)
bytes(name) ==
    CASE  name = "" -> <<>>
      [] name = "a" -> <<97>>
      [] name = "b" -> <<98>>
      [] name = "ab" -> <<97, 98>>
      [] name = "B" -> <<66>>
      [] name = "." -> <<46>>
      [] name = ".." -> <<46, 46>>
      [] name = "documents" -> <<100, 111, 99, 117, 109, 101, 110, 116, 115>>
      [] name = "pictures" -> <<112, 105, 99, 116, 117, 114, 101, 115>>
      [] name = "invoices" -> <<105, 110, 118, 111, 105, 99, 101, 115>>
      [] name = "private" -> <<112, 114, 105, 118, 97, 116, 101>>
      [] name = "upload" -> <<117, 112, 108, 111, 97, 100>>
      [] name = "nosuch" -> <<110, 111, 115, 117, 99, 104>>
      [] name = "root" -> <<114, 111, 111, 116>>
      [] name = "seed01" -> <<115, 101, 101, 100, 48, 49>>
      [] name = "seed02" -> <<115, 101, 101, 100, 48, 50>>
      [] name = "seed03" -> <<115, 101, 101, 100, 48, 51>>
      [] name = "seed04" -> <<115, 101, 101, 100, 48, 52>>
      [] name = "seed05" -> <<115, 101, 101, 100, 48, 53>>
      [] name = "seed06" -> <<115, 101, 101, 100, 48, 54>>
      [] name = "seed07" -> <<115, 101, 101, 100, 48, 55>>
      [] name = "seed08" -> <<115, 101, 101, 100, 48, 56>>
      [] name = "seed09" -> <<115, 101, 101, 100, 48, 57>>
      [] name = "seed10" -> <<115, 101, 101, 100, 49, 48>>
      [] name = "seed11" -> <<115, 101, 101, 100, 49, 49>>
      [] name = "seed12" -> <<115, 101, 101, 100, 49, 50>>
      [] name = "seed13" -> <<115, 101, 101, 100, 49, 51>>
      [] name = "seed14" -> <<115, 101, 101, 100, 49, 52>>
      [] name = "seed15" -> <<115, 101, 101, 100, 49, 53>>
      [] name = "notes" -> <<110, 111, 116, 101, 115>>
      [] name = "loot" -> <<108, 111, 111, 116>>

\* the two bytes of "\r\n"
CRLF == <<13, 10>>

\* Ord::cmp of two strings: byte by byte, a proper prefix is Less
RECURSIVE str_cmp(_, _)
str_cmp(a, b) ==
    IF a = <<>>
    THEN (IF b = <<>> THEN "Equal" ELSE "Less")
    ELSE IF b = <<>> THEN "Greater"
    ELSE IF Head(a) < Head(b) THEN "Less"
    ELSE IF Head(a) > Head(b) THEN "Greater"
    ELSE str_cmp(Tail(a), Tail(b))

\* one step of a stable sort: x goes behind the entries that are not greater
RECURSIVE insert_sorted(_, _, _)
insert_sorted(sorted, x, field) ==
    IF sorted = <<>>
    THEN <<x>>
    ELSE IF str_cmp(bytes(x[field]), bytes(Head(sorted)[field])) = "Less"
    THEN <<x>> \o sorted
    ELSE <<Head(sorted)>> \o insert_sorted(Tail(sorted), x, field)

\* slice::sort_by with |a, b| a.field.cmp(&b.field): a stable sort
RECURSIVE sort_by(_, _)
sort_by(s, field) ==
    IF s = <<>>
    THEN <<>>
    ELSE insert_sorted(sort_by(SubSeq(s, 1, Len(s) - 1), field), s[Len(s)], field)

\* result = format!("{}\r\n{}", result, entry.field) for every entry in turn
RECURSIVE format_lines(_, _, _)
format_lines(result, entries, field) ==
    IF entries = <<>>
    THEN result
    ELSE format_lines(result \o CRLF \o bytes(Head(entries)[field]),
                      Tail(entries), field)

\* result.remove(0) twice when the result is not empty
remove_first_two(result) ==
    IF result = <<>> THEN <<>> ELSE SubSeq(result, 3, Len(result))

\* mutant: the files are listed in the order they are stored in
ls_keeps_file_order(node, values) ==
    LET child_node_values ==
            sort_by([i \in 1..Len(values) |-> node.dirs[values[i]]], "decoration")
        result == format_lines(format_lines(<<>>, child_node_values, "decoration"),
                               node.files, "name")
    IN [out |-> remove_first_two(result), node |-> node]

\* FtpNode::ls; values is the order HashMap::values yields the children in.
\* The files of the node are left sorted.
ls(node, values) ==
    LET child_node_values ==
            sort_by([i \in 1..Len(values) |-> node.dirs[values[i]]], "decoration")
        files == sort_by(node.files, "name")
        result == format_lines(format_lines(<<>>, child_node_values, "decoration"),
                               files, "name")
    IN [out |-> remove_first_two(result), node |-> [node EXCEPT !.files = files]]

\* the orders a HashMap with these keys can be iterated in
Orders(keys) ==
    {o \in [1..Cardinality(keys) -> keys] :
        \A i, j \in 1..Cardinality(keys) : i # j => o[i] # o[j]}

\* ------------------------------------------------ persistence gateway
\* SELECT ... WHERE ip = ? LIMIT 1
get_attacker_by_ip(tbl, ip) ==
    LET m == {a \in tbl : a.ip = ip}
    IN IF m = {} THEN None ELSE Some(MinId(m))

\* SELECT ... WHERE username = ? AND password = ? LIMIT 1
get_credentials_by_username_and_password(tbl, username, password) ==
    LET m == {r \in tbl : r.username = username /\ r.password = password}
    IN IF m = {} THEN None ELSE Some(MinId(m))

get_credentials_by_id(tbl, id) ==
    LET m == {r \in tbl : r.id = id}
    IN IF m = {} THEN None ELSE Some(MinId(m))

\* attacker.find_related(Credentials).filter(Id.eq(credentials_id)): the join
\* of Credentials with the link rows of this attacker
get_credentials_by_id_from_attacker(creds, links, attacker, credentials_id) ==
    LET m == {r \in creds : /\ r.id = credentials_id
                            /\ \E i \in 1..Len(links) :
                                  /\ links[i].attacker_id = attacker.id
                                  /\ links[i].credentials_id = r.id}
    IN IF m = {} THEN None ELSE Some(MinId(m))

\* ActiveModel::save of a row whose primary key is set: UPDATE of the columns
\* that are Set, WHERE id = row.id
save_attacker(tbl, row, cols) ==
    {IF a.id = row.id
     THEN [f \in DOMAIN a |-> IF f \in cols THEN row[f] ELSE a[f]]
     ELSE a : a \in tbl}

\* ActiveModel::save of Credentials: INSERT when id is NotSet, else UPDATE
insert_credentials(tbl, username, password) ==
    LET id == Cardinality(tbl) + 1
    IN [rows |-> tbl \cup {[id |-> id, username |-> username,
                            password |-> password, count |-> 1]},
        id |-> id]

save_credentials(tbl, row) ==
    [rows |-> {IF r.id = row.id THEN row ELSE r : r \in tbl}, id |-> row.id]

\* INSERT into AttackersToCredentials; the composite primary key
\* (attackerId, credentialsId) makes a second insert of the same pair a DbErr
update_attacker_to_credentials(links, attacker_id, credentials_id) ==
    LET row == [attacker_id |-> attacker_id, credentials_id |-> credentials_id]
    IN IF \E i \in 1..Len(links) : links[i] = row
       THEN [rows |-> links, ok |-> FALSE]
       ELSE [rows |-> Append(links, row), ok |-> TRUE]

\* mutant: the tree is not written back
update_fs_skipped(tbl, file_system, attacker_id) == tbl

\* Update::one of FtpFileSystem::update_fs: only file_system is Set
update_fs(tbl, file_system, attacker_id) ==
    save_attacker(tbl, [id |-> attacker_id, file_system |-> Some(file_system)],
                  {"file_system"})

\* ------------------------------- filesystem operations that persist
\* what an operation leaves: the database, the filesystem, its return value,
\* and whether it panicked instead of returning
FsResult(d, file_system, success, panicked) ==
    [db |-> d, fs |-> file_system, success |-> success, panicked |-> panicked]

\* the last component of the argument does not exist: pop().unwrap() panics
NoLastComponent(file_name_and_path) == split_terminator(file_name_and_path) = <<>>

\* the last component of the argument
LastComponent(file_name_and_path) ==
    LET split_string == split_terminator(file_name_and_path)
    IN split_string[Len(split_string)]

\* the directory the components before the last one resolve to
ParentOf(file_system, file_name_and_path) ==
    resolve_path_as_vec(file_system, pop(split_terminator(file_name_and_path)))

\* mutant: the path is emptied in memory only
clear_path_unsaved(d, file_system, attacker_id) ==
    FsResult(d, [file_system EXCEPT !.path = <<>>], TRUE, FALSE)

\* FtpFileSystem::clear_path
clear_path(d, file_system, attacker_id) ==
    LET fs == [file_system EXCEPT !.path = <<>>]
    IN FsResult([d EXCEPT !.attackers = update_fs(@, fs, attacker_id)], fs,
                TRUE, FALSE)

\* FtpFileSystem::save_dir
save_dir(d, file_system, attacker_id, file_name_and_path) ==
    IF NoLastComponent(file_name_and_path)
    THEN FsResult(d, file_system, FALSE, TRUE)
    ELSE LET dir_to_add == LastComponent(file_name_and_path)
             is_path_valid == ParentOf(file_system, file_name_and_path)
         IN IF is_none(is_path_valid)
            THEN FsResult(d, file_system, FALSE, FALSE)
            ELSE LET path == unwrap(is_path_valid)
                     node == traverse_path(file_system.root, path).node
                 IN IF dir_to_add \in DOMAIN node.dirs
                    THEN FsResult(d, file_system, FALSE, FALSE)
                    ELSE LET new_node ==
                                 [node EXCEPT !.dirs =
                                     [n \in (DOMAIN @) \cup {dir_to_add} |->
                                         IF n = dir_to_add
                                         THEN generate_dir(dir_to_add, 0)
                                         ELSE @[n]]]
                             fs == [file_system EXCEPT !.root =
                                       traverse_path_mut(@, path, new_node)]
                         IN FsResult([d EXCEPT !.attackers =
                                         update_fs(@, fs, attacker_id)],
                                     fs, TRUE, FALSE)

\* mutant: a directory is removed whether or not it is empty
rm_dir_any(d, file_system, attacker_id, file_name_and_path) ==
    IF NoLastComponent(file_name_and_path)
    THEN FsResult(d, file_system, FALSE, TRUE)
    ELSE LET dir_to_remove == LastComponent(file_name_and_path)
             is_path_valid == ParentOf(file_system, file_name_and_path)
         IN IF is_none(is_path_valid)
            THEN FsResult(d, file_system, FALSE, FALSE)
            ELSE LET path == unwrap(is_path_valid)
                     node == traverse_path(file_system.root, path).node
                 IN IF dir_to_remove \in DOMAIN node.dirs
                    THEN LET new_node ==
                                 [node EXCEPT !.dirs =
                                     [n \in (DOMAIN @) \ {dir_to_remove} |-> @[n]]]
                             fs == [file_system EXCEPT !.root =
                                       traverse_path_mut(@, path, new_node)]
                         IN FsResult([d EXCEPT !.attackers =
                                         update_fs(@, fs, attacker_id)],
                                     fs, TRUE, FALSE)
                    ELSE FsResult(d, file_system, FALSE, FALSE)

\* FtpFileSystem::rm_dir: only an existing directory with no files and no
\* directories is removed
rm_dir(d, file_system, attacker_id, file_name_and_path) ==
    IF NoLastComponent(file_name_and_path)
    THEN FsResult(d, file_system, FALSE, TRUE)
    ELSE LET dir_to_remove == LastComponent(file_name_and_path)
             is_path_valid == ParentOf(file_system, file_name_and_path)
         IN IF is_none(is_path_valid)
            THEN FsResult(d, file_system, FALSE, FALSE)
            ELSE LET path == unwrap(is_path_valid)
                     node == traverse_path(file_system.root, path).node
                 IN IF /\ dir_to_remove \in DOMAIN node.dirs
                       /\ node.dirs[dir_to_remove].files = <<>>
                       /\ DOMAIN node.dirs[dir_to_remove].dirs = {}
                    THEN LET new_node ==
                                 [node EXCEPT !.dirs =
                                     [n \in (DOMAIN @) \ {dir_to_remove} |-> @[n]]]
                             fs == [file_system EXCEPT !.root =
                                       traverse_path_mut(@, path, new_node)]
                         IN FsResult([d EXCEPT !.attackers =
                                         update_fs(@, fs, attacker_id)],
                                     fs, TRUE, FALSE)
                    ELSE FsResult(d, file_system, FALSE, FALSE)

\* Iterator::position: the index of the first file with that name, 0 for None
position(files, file_name) ==
    IF \E i \in 1..Len(files) : files[i].name = file_name
    THEN CHOOSE i \in 1..Len(files) :
            /\ files[i].name = file_name
            /\ \A j \in 1..(i - 1) : files[j].name # file_name
    ELSE 0

\* Vec::remove
remove(s, index) == SubSeq(s, 1, index - 1) \o SubSeq(s, index + 1, Len(s))

\* FtpFileSystem::rm_file
rm_file(d, file_system, attacker_id, file_name_and_path) ==
    IF NoLastComponent(file_name_and_path)
    THEN FsResult(d, file_system, FALSE, TRUE)
    ELSE LET file_name == LastComponent(file_name_and_path)
             is_path_valid == ParentOf(file_system, file_name_and_path)
         IN IF is_none(is_path_valid)
            THEN FsResult(d, file_system, FALSE, FALSE)
            ELSE LET path == unwrap(is_path_valid)
                     node == traverse_path(file_system.root, path).node
                     index == position(node.files, file_name)
                 IN IF index # 0
                    THEN LET new_node == [node EXCEPT !.files = remove(@, index)]
                             fs == [file_system EXCEPT !.root =
                                       traverse_path_mut(@, path, new_node)]
                         IN FsResult([d EXCEPT !.attackers =
                                         update_fs(@, fs, attacker_id)],
                                     fs, TRUE, FALSE)
                    ELSE FsResult(d, file_system, FALSE, FALSE)

\* mutant: the location is stored whether uploads are kept or not
save_file_located(d, file_system, attacker_id, path_to_physical_file, file_name_and_path, file_size, file_hash) ==
    IF NoLastComponent(file_name_and_path)
    THEN FsResult(d, file_system, FALSE, TRUE)
    ELSE LET file_name == LastComponent(file_name_and_path)
             is_path_valid == ParentOf(file_system, file_name_and_path)
         IN IF is_none(is_path_valid)
            THEN FsResult(d, file_system, FALSE, FALSE)
            ELSE LET path == unwrap(is_path_valid)
                     id == d.file_seq + 1
                     file == [id |-> id, filename |-> file_name,
                              attacker_id |-> Some(attacker_id),
                              size |-> file_size, hash |-> Some(file_hash),
                              location |-> Some(path_to_physical_file),
                              virustotal_result |-> None]
                     node == traverse_path(file_system.root, path).node
                     new_node == [node EXCEPT
                                     !.size = @ + file_size,
                                     !.files = Append(@,
                                         [name |-> file_name, size |-> file_size,
                                          file_id |-> Some(id),
                                          default_file |-> None])]
                     fs == [file_system EXCEPT !.root =
                               traverse_path_mut(@, path, new_node)]
                 IN FsResult([d EXCEPT !.file_seq = id,
                                       !.files = Append(@, file),
                                       !.attackers = update_fs(@, fs, attacker_id)],
                             fs, TRUE, FALSE)

\* FtpFileSystem::save_file: a row of UploadedFiles is inserted and the file is
\* pushed onto the directory, when the directory resolves
save_file(d, file_system, attacker_id, path_to_physical_file, file_name_and_path, file_size, file_hash) ==
    IF NoLastComponent(file_name_and_path)
    THEN FsResult(d, file_system, FALSE, TRUE)
    ELSE LET file_name == LastComponent(file_name_and_path)
             is_path_valid == ParentOf(file_system, file_name_and_path)
         IN IF is_none(is_path_valid)
            THEN FsResult(d, file_system, FALSE, FALSE)
            ELSE LET path == unwrap(is_path_valid)
                     id == d.file_seq + 1
                     file == [id |-> id, filename |-> file_name,
                              attacker_id |-> Some(attacker_id),
                              size |-> file_size, hash |-> Some(file_hash),
                              location |-> IF file_upload_real
                                           THEN Some(path_to_physical_file)
                                           ELSE None,
                              virustotal_result |-> None]
                     node == traverse_path(file_system.root, path).node
                     new_node == [node EXCEPT
                                     !.size = @ + file_size,
                                     !.files = Append(@,
                                         [name |-> file_name, size |-> file_size,
                                          file_id |-> Some(id),
                                          default_file |-> None])]
                     fs == [file_system EXCEPT !.root =
                               traverse_path_mut(@, path, new_node)]
                 IN FsResult([d EXCEPT !.file_seq = id,
                                       !.files = Append(@, file),
                                       !.attackers = update_fs(@, fs, attacker_id)],
                             fs, TRUE, FALSE)

\* create_file: a file of random bytes at base_save_path + file_name
create_file(file_name) == <<"base", 0, <<file_name>>>>

\* SELECT ... FROM UploadedFiles WHERE id = ?
get_file_by_id(files, id) ==
    LET m == {i \in 1..Len(files) : files[i].id = id}
    IN IF m = {} THEN None ELSE Some(files[CHOOSE i \in m : TRUE])

\* FtpFileSystem::get_physical_file_path: where the bytes of a virtual file
\* are, synthesising them when uploads may not be downloaded
get_physical_file_path(d, file_system, file_name_and_path) ==
    LET found(location, db, panicked) ==
            [can_be_downloaded |-> can_be_downloaded, location |-> location,
             db |-> db, panicked |-> panicked]
    IN IF NoLastComponent(file_name_and_path)
       THEN found(None, d, TRUE)
       ELSE LET file_name == LastComponent(file_name_and_path)
                is_path_valid == ParentOf(file_system, file_name_and_path)
            IN IF is_none(is_path_valid)
               THEN found(None, d, FALSE)
               ELSE LET node == traverse_path(file_system.root,
                                              unwrap(is_path_valid)).node
                        index == position(node.files, file_name)
                    IN IF index = 0
                       THEN found(None, d, FALSE)
                       ELSE LET file == node.files[index]
                            IN IF is_some(file.default_file)
                               THEN found(file.default_file, d, FALSE)
                               ELSE IF ~can_be_downloaded
                               THEN found(Some(create_file(file.name)),
                                          [d EXCEPT !.disk = @ \cup {create_file(file.name)}],
                                          FALSE)
                               ELSE LET db_file == get_file_by_id(d.files,
                                                                  unwrap(file.file_id))
                                    IN IF is_none(db_file)
                                       THEN found(None, d, TRUE)
                                       ELSE found(unwrap(db_file).location, d, FALSE)

\* the files of the node at path sorted by name, as the listing functions
\* leave them
sort_files_at(file_system, path) ==
    LET node == traverse_path(file_system.root, path).node
    IN [file_system EXCEPT !.root =
           traverse_path_mut(@, path, [node EXCEPT !.files = sort_by(@, "name")])]
\* ----------------------------------------------------- login policy
\* the database as one value, threaded through the calls of one handler
Db == [attackers |-> attackers, attacker_seq |-> attacker_seq,
       credentials |-> credentials, links |-> attacker_to_credentials,
       generated |-> generated_files, files |-> uploaded_files,
       file_seq |-> uploaded_file_seq, disk |-> disk]

\* mutant: the first sighting is not counted
add_new_attacker_uncounted(d, ip) ==
    LET id == d.attacker_seq + 1
    IN [d EXCEPT !.attacker_seq = id,
                 !.attackers = @ \cup {[id |-> id, ip |-> ip, login_count |-> 0,
                                        credentials_id |-> None,
                                        file_system |-> None]}]

\* INSERT of a new attacker row with login_count 1
add_new_attacker(d, ip) ==
    LET id == d.attacker_seq + 1
    IN [d EXCEPT !.attacker_seq = id,
                 !.attackers = @ \cup {[id |-> id, ip |-> ip, login_count |-> 1,
                                        credentials_id |-> None,
                                        file_system |-> None]}]

\* returns the database and the id of the (new or re-sighted) Credentials row
get_credentials_and_update_count(d, username, password) ==
    LET credentials_optional ==
            get_credentials_by_username_and_password(d.credentials, username, password)
        saved == IF is_none(credentials_optional)
                 THEN insert_credentials(d.credentials, username, password)
                 ELSE save_credentials(d.credentials,
                          [unwrap(credentials_optional) EXCEPT !.count = @ + 1])
    IN [db |-> [d EXCEPT !.credentials = saved.rows], id |-> saved.id]

\* mutant: a filesystem is built whenever credentials are given
update_attacker_always_new_fs(d, attacker, credentials_id_optional) ==
    LET bind == is_some(credentials_id_optional)
        row == [attacker EXCEPT
                   !.file_system = IF bind
                                   THEN Some(new_fs_of_attacker(attacker.id))
                                   ELSE @,
                   !.credentials_id = IF bind THEN credentials_id_optional ELSE @,
                   !.login_count = @ + 1]
        cols == {"login_count"}
                  \cup (IF bind THEN {"credentials_id", "file_system"} ELSE {})
    IN [d EXCEPT !.attackers = save_attacker(@, row, cols),
                 !.generated = IF bind
                               THEN [@ EXCEPT ![attacker.id] = @ + 1]
                               ELSE @,
                 !.disk = IF bind THEN @ \cup seed_copies(attacker.id) ELSE @]

\* binds the credentials when some are given, creating the filesystem if the
\* attacker had none bound, and counts the login
update_attacker(d, attacker, credentials_id_optional) ==
    LET bind == is_some(credentials_id_optional)
        fresh == bind /\ is_none(attacker.credentials_id)
        row == [attacker EXCEPT
                   !.file_system = IF fresh
                                   THEN Some(new_fs_of_attacker(attacker.id))
                                   ELSE @,
                   !.credentials_id = IF bind THEN credentials_id_optional ELSE @,
                   !.login_count = @ + 1]
        cols == {"login_count"}
                  \cup (IF bind THEN {"credentials_id"} ELSE {})
                  \cup (IF fresh THEN {"file_system"} ELSE {})
    IN [d EXCEPT !.attackers = save_attacker(@, row, cols),
                 !.generated = IF fresh
                               THEN [@ EXCEPT ![attacker.id] = @ + 1]
                               ELSE @,
                 !.disk = IF fresh THEN @ \cup seed_copies(attacker.id) ELSE @]

\* ok is FALSE when the insert fails and expect() panics
update_credentials_of_attacker(d, attacker_id, credentials_id) ==
    LET r == update_attacker_to_credentials(d.links, attacker_id, credentials_id)
    IN [db |-> [d EXCEPT !.links = r.rows], ok |-> r.ok]

\* mutant: the arms of the match are swapped
check_credentials_of_attacker_swapped(d, credentials_id, attacker) ==
    LET result == get_credentials_by_id_from_attacker(d.credentials, d.links,
                                                      attacker, credentials_id)
    IN IF is_some(result)
       THEN [db |-> update_attacker(d, attacker, Some(credentials_id)), ok |-> TRUE]
       ELSE [db |-> update_attacker(d, attacker, None), ok |-> FALSE]

check_credentials_of_attacker(d, credentials_id, attacker) ==
    LET result == get_credentials_by_id_from_attacker(d.credentials, d.links,
                                                      attacker, credentials_id)
    IN IF is_none(result)
       THEN [db |-> update_attacker(d, attacker, Some(credentials_id)), ok |-> TRUE]
       ELSE [db |-> update_attacker(d, attacker, None), ok |-> FALSE]

check_credentials(d, credentials_id, attacker, ip) ==
    LET r == check_credentials_of_attacker(d, credentials_id, attacker)
    IN [db |-> r.db,
        result |-> IF r.ok THEN get_attacker_by_ip(r.db.attackers, ip) ELSE None,
        panicked |-> FALSE]

\* mutant: only the user name is compared
credentials_equal_username_only(username, password, cur_credentials) ==
    username = cur_credentials.username

\* the credentials of the request equal the bound ones
credentials_equal(username, password, cur_credentials) ==
    username = cur_credentials.username /\ password = cur_credentials.password

\* mutant: the count is compared as if the current attempt were already counted
cmp_counting_current(login_count, threshold) ==
    IF login_count + 1 < threshold THEN "Less"
    ELSE IF login_count + 1 = threshold THEN "Equal"
    ELSE "Greater"

\* attacker.login_count.cmp(&_login_count)
cmp(login_count, threshold) ==
    IF login_count < threshold THEN "Less"
    ELSE IF login_count = threshold THEN "Equal"
    ELSE "Greater"

\* is_login_valid after its first query returned attacker_optional: the
\* branches, run on the database as it is by then. result: the admitted
\* attacker or None; panicked: the task died in the call
is_login_valid_after(d, attacker_optional, username, password, ip) ==
    LET _login_count == number_of_tries_before_success
    IN IF is_none(attacker_optional)
       THEN LET d1 == add_new_attacker(d, ip)
                c == get_credentials_and_update_count(d1, username, password)
                l == update_credentials_of_attacker(c.db, d1.attacker_seq, c.id)
            IN [db |-> l.db, result |-> None, panicked |-> ~l.ok]
       ELSE LET attacker == unwrap(attacker_optional)
                c == get_credentials_and_update_count(d, username, password)
            IN IF cmp(attacker.login_count, _login_count) = "Less"
               THEN LET d2 == update_attacker(c.db, attacker, None)
                        l == update_credentials_of_attacker(d2, attacker.id, c.id)
                    IN [db |-> l.db, result |-> None, panicked |-> ~l.ok]
               ELSE IF cmp(attacker.login_count, _login_count) = "Equal"
               THEN check_credentials(c.db, c.id, attacker, ip)
               ELSE IF is_none(attacker.credentials_id)
               THEN check_credentials(c.db, c.id, attacker, ip)
               ELSE LET cur_credentials ==
                            get_credentials_by_id(c.db.credentials,
                                                  unwrap(attacker.credentials_id))
                        d2 == update_attacker(c.db, attacker, attacker.credentials_id)
                    IN IF is_none(cur_credentials)
                       THEN [db |-> c.db, result |-> None, panicked |-> TRUE]
                       ELSE [db |-> d2,
                             result |-> IF credentials_equal(username, password,
                                                             unwrap(cur_credentials))
                                        THEN Some(attacker)
                                        ELSE None,
                             panicked |-> FALSE]

\* is_login_valid: get_attacker_by_ip, then the branches
is_login_valid(d, username, password, ip) ==
    is_login_valid_after(d, get_attacker_by_ip(d.attackers, ip), username, password, ip)

\* ------------------------------------------------------- the session
\* a connection slot with no task: reply keeps the last reply written on it,
\* verb the last verb handled and exit the way the task ended
Closed(reply) ==
    [pc |-> "closed", ip |-> "", username |-> "", password |-> "",
     model |-> None, data_socket |-> FALSE, data_addr |-> None,
     reply |-> reply, msg |-> None, verb |-> "", connected |-> FALSE,
     exit |-> ""]

\* Client as handle_connection constructs it
NewClient(ip, reply) ==
    [Closed(reply) EXCEPT !.pc = "loop", !.ip = ip]

\* write_packet: the reply reaches the peer unless the write fails
Written(code, write_ok) == IF write_ok THEN Some(code) ELSE None

\* the client a handler starts from: no data connection opened yet
Handling(c, verb) ==
    [sess[c] EXCEPT !.verb = verb, !.connected = FALSE, !.msg = None]

\* the slot of a task that ended
Ended(client, exit) ==
    [Closed(client.reply) EXCEPT !.verb = client.verb, !.exit = exit,
                                 !.connected = client.connected]

\* break out of the command loop: the counter is decremented, the task ends
LeaveLoop(c, client, exit) ==
    /\ sess' = [sess EXCEPT ![c] = Ended(client, exit)]
    /\ current_users' = current_users - 1

\* a panic unwinds the task: the stream is dropped, the decrement never runs
Panic(c, client) ==
    /\ sess' = [sess EXCEPT ![c] = Ended(client, "panic")]
    /\ UNCHANGED current_users

\* the panic of an unwrap or expect on the data channel
DataPanic(c, client) ==
    /\ sess' = [sess EXCEPT ![c] = Ended(client, "data")]
    /\ UNCHANGED current_users

\* send_response as the last step of a handler that leaves client behind: the
\* handler returns true when the reply is written and false otherwise
Respond(c, client, code, write_ok) ==
    IF write_ok
    THEN /\ sess' = [sess EXCEPT ![c] = [client EXCEPT !.reply = Some(code)]]
         /\ UNCHANGED current_users
    ELSE LeaveLoop(c, client, "write")

\* deny_access: 530 "Please login with USER and PASS."
deny_access(c, client, write_ok) == Respond(c, client, NotLoggedIn, write_ok)

SetDb(d) ==
    /\ attackers' = d.attackers
    /\ attacker_seq' = d.attacker_seq
    /\ credentials' = d.credentials
    /\ attacker_to_credentials' = d.links
    /\ generated_files' = d.generated
    /\ uploaded_files' = d.files
    /\ uploaded_file_seq' = d.file_seq
    /\ disk' = d.disk

\* listener.accept() and tokio::spawn of handle_connection
accept(c, ip) ==
    /\ sess[c].pc = "closed"
    /\ sess' = [sess EXCEPT ![c] = [Closed(None) EXCEPT !.pc = "spawned", !.ip = ip]]
    /\ UNCHANGED <<cfgvars, dbvars, current_users, pass_log>>

\* first lock of current_users: the cap check; at the cap 421 and return
check_users(c, write_ok) ==
    /\ sess[c].pc = "spawned"
    /\ IF current_users >= max_concurrent_users
       THEN sess' = [sess EXCEPT ![c] = [Closed(Written(ServiceNotAvailable, write_ok))
                                            EXCEPT !.exit = "full"]]
       ELSE sess' = [sess EXCEPT ![c].pc = "admitted"]
    /\ UNCHANGED <<cfgvars, dbvars, current_users, pass_log>>

\* second lock of current_users: the increment; then the 220 banner, and a
\* failed banner write returns at once
enter(c, write_ok) ==
    /\ sess[c].pc = "admitted"
    /\ current_users' = current_users + 1
    /\ IF write_ok
       THEN sess' = [sess EXCEPT ![c] = NewClient(sess[c].ip, Some(ServiceReadyForNewUser))]
       ELSE sess' = [sess EXCEPT ![c] = [Closed(sess[c].reply) EXCEPT !.exit = "banner"]]
    /\ UNCHANGED <<cfgvars, dbvars, pass_log>>

user(c, username, write_ok) ==
    /\ sess[c].pc = "loop"
    /\ Respond(c, [Handling(c, "USER") EXCEPT !.username = username],
               UserNameOkayNeedPassword, write_ok)
    /\ UNCHANGED <<cfgvars, dbvars, pass_log>>

\* QUIT: 221 and the handler returns false whether or not the reply was written
quit(c, write_ok) ==
    /\ sess[c].pc = "loop"
    /\ LET client == Handling(c, "QUIT")
       IN IF write_ok
          THEN LeaveLoop(c, [client EXCEPT !.reply = Some(UserSuccessfulLogout)], "quit")
          ELSE LeaveLoop(c, client, "write")
    /\ UNCHANGED <<cfgvars, dbvars, pass_log>>

\* Decoder::decode returns Err: the loop is left without a reply
decode_error(c) ==
    /\ sess[c].pc = "loop"
    /\ LeaveLoop(c, Handling(c, ""), "decode")
    /\ UNCHANGED <<cfgvars, dbvars, pass_log>>

\* ------------------------------------------------ the verb handlers
syst(c, write_ok) ==
    /\ sess[c].pc = "loop"
    /\ LET client == Handling(c, "SYST")
       IN IF is_none(client.model)
          THEN deny_access(c, client, write_ok)
          ELSE Respond(c, client, NameSystemType, write_ok)
    /\ UNCHANGED <<cfgvars, dbvars, pass_log>>

\* TYPE: always answered as binary mode
fn_type(c, write_ok) ==
    /\ sess[c].pc = "loop"
    /\ LET client == Handling(c, "TYPE")
       IN IF is_none(client.model)
          THEN deny_access(c, client, write_ok)
          ELSE Respond(c, client, Okay, write_ok)
    /\ UNCHANGED <<cfgvars, dbvars, pass_log>>

mode(c, argument, write_ok) ==
    /\ sess[c].pc = "loop"
    /\ LET client == Handling(c, "MODE")
       IN IF is_none(client.model)
          THEN deny_access(c, client, write_ok)
          ELSE IF argument = "S"
          THEN Respond(c, client, Okay, write_ok)
          ELSE Respond(c, client, CommandNotImplemented, write_ok)
    /\ UNCHANGED <<cfgvars, dbvars, pass_log>>

stru(c, argument, write_ok) ==
    /\ sess[c].pc = "loop"
    /\ LET client == Handling(c, "STRU")
       IN IF is_none(client.model)
          THEN deny_access(c, client, write_ok)
          ELSE IF argument # "F"
          THEN Respond(c, client, CommandNotImplemented, write_ok)
          ELSE Respond(c, client, Okay, write_ok)
    /\ UNCHANGED <<cfgvars, dbvars, pass_log>>

noop(c, write_ok) ==
    /\ sess[c].pc = "loop"
    /\ LET client == Handling(c, "NOOP")
       IN IF is_none(client.model)
          THEN deny_access(c, client, write_ok)
          ELSE Respond(c, client, Okay, write_ok)
    /\ UNCHANGED <<cfgvars, dbvars, pass_log>>

\* HELP: the help message under 530, logged in or not
help(c, write_ok) ==
    /\ sess[c].pc = "loop"
    /\ Respond(c, Handling(c, "HELP"), NotLoggedIn, write_ok)
    /\ UNCHANGED <<cfgvars, dbvars, pass_log>>

\* ACCT: always rejected
acct(c, write_ok) ==
    /\ sess[c].pc = "loop"
    /\ Respond(c, Handling(c, "ACCT"), NotLoggedIn, write_ok)
    /\ UNCHANGED <<cfgvars, dbvars, pass_log>>

cdup(c, write_ok) ==
    /\ sess[c].pc = "loop"
    /\ Respond(c, Handling(c, "CDUP"), DirectoryCreationFailed, write_ok)
    /\ UNCHANGED <<cfgvars, dbvars, pass_log>>

allo(c, write_ok) ==
    /\ sess[c].pc = "loop"
    /\ Respond(c, Handling(c, "ALLO"), CommandOkayNotImplemented, write_ok)
    /\ UNCHANGED <<cfgvars, dbvars, pass_log>>

stat(c, write_ok) ==
    /\ sess[c].pc = "loop"
    /\ Respond(c, Handling(c, "STAT"), CommandNotImplementedForParameter, write_ok)
    /\ UNCHANGED <<cfgvars, dbvars, pass_log>>

\* a verb Command::from_str does not know
not_supported(c, write_ok) ==
    /\ sess[c].pc = "loop"
    /\ Respond(c, Handling(c, "NOT_SUPPORTED"), CommandNotImplemented, write_ok)
    /\ UNCHANGED <<cfgvars, dbvars, pass_log>>

\* str::parse::<u16>
parse_u16(n) == IF n \in 0..65535 THEN Some(n) ELSE None

\* mutant: the target is staged without asking for a login
port_unchecked(c, nums, overflow_checks, write_ok) ==
    /\ sess[c].pc = "loop"
    /\ LET client == Handling(c, "PORT")
       IN IF Len(nums) < 6
          THEN Panic(c, client)
          ELSE Respond(c, [client EXCEPT
                              !.data_socket = TRUE,
                              !.data_addr =
                                  Some([host |-> SubSeq(nums, 1, 4),
                                        port |-> (nums[5] * 256 + nums[6]) % 65536])],
                       IF is_none(client.model) THEN NotLoggedIn ELSE Okay, write_ok)
    /\ UNCHANGED <<cfgvars, dbvars, pass_log>>

\* PORT h1,h2,h3,h4,p1,p2: the numbers are given as nums; overflow_checks tells
\* whether the build panics on integer overflow or wraps
port(c, nums, overflow_checks, write_ok) ==
    /\ sess[c].pc = "loop"
    /\ LET client == Handling(c, "PORT")
       IN IF is_none(client.model)
          THEN deny_access(c, client, write_ok)
          ELSE IF Len(nums) < 6
          THEN Panic(c, client)
          ELSE IF is_none(parse_u16(nums[5])) \/ is_none(parse_u16(nums[6]))
          THEN Panic(c, client)
          ELSE LET port_one == nums[5]
                   port_two == nums[6]
               IN IF port_one * 256 + port_two > 65535 /\ overflow_checks
                  THEN Panic(c, client)
                  ELSE Respond(c, [client EXCEPT
                                      !.data_socket = TRUE,
                                      !.data_addr =
                                          Some([host |-> SubSeq(nums, 1, 4),
                                                port |-> (port_one * 256 + port_two)
                                                             % 65536])],
                               Okay, write_ok)
    /\ UNCHANGED <<cfgvars, dbvars, pass_log>>

\* CWD moves the working directory of the cached filesystem; nothing is saved
cwd(c, argument, write_ok) ==
    /\ sess[c].pc = "loop"
    /\ LET client == Handling(c, "CWD")
       IN IF is_none(client.model)
          THEN deny_access(c, client, write_ok)
          ELSE LET model == unwrap(client.model)
                   moved == cd_as_str(unwrap(model.file_system), argument)
                   after == [client EXCEPT !.model =
                                Some([model EXCEPT !.file_system = Some(moved.fs)])]
               IN IF ~moved.ok
                  THEN Respond(c, after, DirectoryCreationFailed, write_ok)
                  ELSE Respond(c, after, RequestedFileActionOkayCompleted, write_ok)
    /\ UNCHANGED <<cfgvars, dbvars, pass_log>>

\* format!("/{}", path.join("/"))
current_path(path) == <<"/">> \o join_path(path)

\* PWD: 257 with the working directory in the message
pwd(c, write_ok) ==
    /\ sess[c].pc = "loop"
    /\ LET client == Handling(c, "PWD")
       IN IF is_none(client.model)
          THEN deny_access(c, client, write_ok)
          ELSE LET model == unwrap(client.model)
               IN Respond(c, [client EXCEPT !.msg =
                                 IF write_ok
                                 THEN Some(current_path(unwrap(model.file_system).path))
                                 ELSE None],
                          PathnameAvailable, write_ok)
    /\ UNCHANGED <<cfgvars, dbvars, pass_log>>

\* the first step of a handler that fails, if any: the write of the first
\* reply, the connect of the data channel, the transfer, the write of the
\* closing reply
Faults == {"none", "reply", "connect", "io", "closing"}

\* get_data_tcp: take() of the staged socket and address, then connect; the
\* unwraps panic when nothing is staged or the connect fails
DataChannelOpens(client, fault) ==
    client.data_socket /\ is_some(client.data_addr) /\ fault # "connect"

\* mutant: the staged socket and address are not taken
Connected_keeping(client) == [client EXCEPT !.connected = TRUE]

\* the client after get_data_tcp connected
Connected(client) ==
    [client EXCEPT !.data_socket = FALSE, !.data_addr = None, !.connected = TRUE]

\* the argument of a verb sent without one: the rest of the zeroed buffer
NoArgument == <<"\\0">>

\* LIST: the listing of the working directory, or of the directory the
\* argument names, is built first (sorting the files it lists), then 150, the
\* data connection, the listing, 226
list(c, argument, fault) ==
    /\ sess[c].pc = "loop"
    /\ LET client == Handling(c, "LIST")
       IN IF is_none(client.model)
          THEN deny_access(c, client, fault # "reply")
          ELSE LET model == unwrap(client.model)
                   file_system == unwrap(model.file_system)
                   here == sort_files_at(file_system, file_system.path)
                   target == IF argument = NoArgument
                             THEN None
                             ELSE resolve_path(here, argument)
                   listed == IF is_some(target)
                             THEN sort_files_at(here, unwrap(target))
                             ELSE here
                   after == [client EXCEPT !.model =
                                Some([model EXCEPT !.file_system = Some(listed)])]
               IN IF fault = "reply"
                  THEN LeaveLoop(c, after, "write")
                  ELSE IF ~DataChannelOpens(after, fault)
                  THEN DataPanic(c, [after EXCEPT !.reply = Some(FileStatusOkay)])
                  ELSE IF fault = "io"
                  THEN DataPanic(c, [Connected(after) EXCEPT !.reply = Some(FileStatusOkay)])
                  ELSE Respond(c, [Connected(after) EXCEPT !.reply = Some(FileStatusOkay)],
                               ClosingDataConnection, fault # "closing")
    /\ UNCHANGED <<cfgvars, dbvars, pass_log>>

\* the 7 random characters STOR names the n-th stored file with
random_filename(n) ==
    <<"Xa3kQ9z", "b7TgH2m", "pQ4wZ8s", "m1NcV5y", "R8dLq0e", "t6YuJ3c">>[n]

\* get_real_file_path with a fresh random name: the name of no file the
\* directory of the attacker holds
get_real_file_path(d, attacker_id) ==
    LET taken(n) == user_path(attacker_id, <<random_filename(n)>>) \in d.disk
        n == CHOOSE n \in 1..6 : ~taken(n) /\ \A m \in 1..(n - 1) : taken(m)
    IN user_path(attacker_id, <<random_filename(n)>>)

\* sha256::digest, as a function that tells the bodies apart
sha256(body) == <<"sha256", body>>

\* STOR: the data connection first, then 150, the bytes are written to a file
\* with a random name in the directory of the attacker, save_file records the
\* upload, the file is removed again unless uploads are kept, 226
stor(c, argument, body, fault) ==
    /\ sess[c].pc = "loop"
    /\ LET client == Handling(c, "STOR")
       IN IF is_none(client.model)
          THEN /\ deny_access(c, client, fault # "reply")
               /\ UNCHANGED dbvars
          ELSE IF ~DataChannelOpens(client, fault)
          THEN /\ DataPanic(c, client)
               /\ UNCHANGED dbvars
          ELSE IF fault = "reply"
          THEN /\ LeaveLoop(c, Connected(client), "write")
               /\ UNCHANGED dbvars
          ELSE LET model == unwrap(client.model)
                   announced == [Connected(client) EXCEPT !.reply = Some(FileStatusOkay)]
                   real_path == get_real_file_path(Db, model.id)
                   created == [Db EXCEPT !.disk = @ \cup {real_path}]
                   saved == save_file(created, unwrap(model.file_system), model.id,
                                      real_path, argument, Len(body), sha256(body))
                   kept == IF file_upload_real
                           THEN saved.db
                           ELSE [saved.db EXCEPT !.disk = @ \ {real_path}]
                   after == [announced EXCEPT !.model =
                                Some([model EXCEPT !.file_system = Some(saved.fs)])]
               IN IF fault = "io"
                  THEN /\ DataPanic(c, announced)
                       /\ SetDb(created)
                  ELSE IF saved.panicked
                  THEN /\ Panic(c, announced)
                       /\ SetDb(created)
                  ELSE /\ SetDb(kept)
                       /\ Respond(c, after, ClosingDataConnection, fault # "closing")
    /\ UNCHANGED <<cfgvars, pass_log>>

\* RETR: the data connection first; 550 when the file has no physical path;
\* else 150, the bytes, the physical file is removed when uploads may not be
\* downloaded, 226
retr(c, argument, fault) ==
    /\ sess[c].pc = "loop"
    /\ LET client == Handling(c, "RETR")
       IN IF is_none(client.model)
          THEN /\ deny_access(c, client, fault # "reply")
               /\ UNCHANGED dbvars
          ELSE IF ~DataChannelOpens(client, fault)
          THEN /\ DataPanic(c, client)
               /\ UNCHANGED dbvars
          ELSE LET model == unwrap(client.model)
                   physical_path == get_physical_file_path(Db,
                                        unwrap(model.file_system), argument)
                   announced == [Connected(client) EXCEPT !.reply = Some(FileStatusOkay)]
               IN IF physical_path.panicked
                  THEN /\ Panic(c, Connected(client))
                       /\ UNCHANGED dbvars
                  ELSE IF is_none(physical_path.location)
                  THEN /\ Respond(c, Connected(client), DirectoryCreationFailed,
                                  fault # "reply")
                       /\ SetDb(physical_path.db)
                  ELSE IF fault = "reply"
                  THEN /\ LeaveLoop(c, Connected(client), "write")
                       /\ SetDb(physical_path.db)
                  ELSE IF unwrap(physical_path.location) \notin physical_path.db.disk
                  THEN /\ Panic(c, announced)
                       /\ SetDb(physical_path.db)
                  ELSE IF fault = "io"
                  THEN /\ DataPanic(c, announced)
                       /\ SetDb(physical_path.db)
                  ELSE /\ SetDb(IF ~physical_path.can_be_downloaded
                                THEN [physical_path.db EXCEPT !.disk =
                                         @ \ {unwrap(physical_path.location)}]
                                ELSE physical_path.db)
                       /\ Respond(c, announced, ClosingDataConnection,
                                  fault # "closing")
    /\ UNCHANGED <<cfgvars, pass_log>>

\* MKD: the directory is added to the cached filesystem, which save_dir writes
\* back; when uploads are kept the directory is also created on disk
mkd(c, new_dir, write_ok) ==
    /\ sess[c].pc = "loop"
    /\ LET client == Handling(c, "MKD")
       IN IF is_none(client.model)
          THEN /\ deny_access(c, client, write_ok)
               /\ UNCHANGED dbvars
          ELSE LET model == unwrap(client.model)
                   saved == save_dir(Db, unwrap(model.file_system), model.id, new_dir)
                   after == [client EXCEPT !.model =
                                Some([model EXCEPT !.file_system = Some(saved.fs)])]
               IN IF saved.panicked
                  THEN /\ Panic(c, client)
                       /\ UNCHANGED dbvars
                  ELSE IF saved.success
                  THEN /\ SetDb(IF file_upload_real
                                THEN [saved.db EXCEPT !.disk =
                                         @ \cup {user_path(model.id, new_dir)}]
                                ELSE saved.db)
                       /\ Respond(c, after, PathnameAvailable, write_ok)
                  ELSE /\ SetDb(saved.db)
                       /\ Respond(c, after, DirectoryCreationFailed, write_ok)
    /\ UNCHANGED <<cfgvars, pass_log>>

rmd(c, dir_to_delete, write_ok) ==
    /\ sess[c].pc = "loop"
    /\ LET client == Handling(c, "RMD")
       IN IF is_none(client.model)
          THEN /\ deny_access(c, client, write_ok)
               /\ UNCHANGED dbvars
          ELSE LET model == unwrap(client.model)
                   removed == rm_dir(Db, unwrap(model.file_system), model.id,
                                     dir_to_delete)
                   after == [client EXCEPT !.model =
                                Some([model EXCEPT !.file_system = Some(removed.fs)])]
               IN IF removed.panicked
                  THEN /\ Panic(c, client)
                       /\ UNCHANGED dbvars
                  ELSE /\ SetDb(removed.db)
                       /\ Respond(c, after,
                                  IF removed.success
                                  THEN RequestedFileActionOkayCompleted
                                  ELSE DirectoryCreationFailed,
                                  write_ok)
    /\ UNCHANGED <<cfgvars, pass_log>>

\* DELE: the physical path is looked up first (which may synthesise the
\* file), the file is removed from the tree, and when uploads are kept the
\* physical file is removed too
dele(c, file_to_delete, write_ok) ==
    /\ sess[c].pc = "loop"
    /\ LET client == Handling(c, "DELE")
       IN IF is_none(client.model)
          THEN /\ deny_access(c, client, write_ok)
               /\ UNCHANGED dbvars
          ELSE LET model == unwrap(client.model)
                   real_file_to_delete ==
                       get_physical_file_path(Db, unwrap(model.file_system),
                                              file_to_delete)
                   removed == rm_file(real_file_to_delete.db,
                                      unwrap(model.file_system), model.id,
                                      file_to_delete)
                   after == [client EXCEPT !.model =
                                Some([model EXCEPT !.file_system = Some(removed.fs)])]
               IN IF real_file_to_delete.panicked
                  THEN /\ Panic(c, client)
                       /\ UNCHANGED dbvars
                  ELSE IF ~removed.success
                  THEN /\ SetDb(removed.db)
                       /\ Respond(c, after, DirectoryCreationFailed, write_ok)
                  ELSE IF ~file_upload_real
                  THEN /\ SetDb(removed.db)
                       /\ Respond(c, after, RequestedFileActionOkayCompleted, write_ok)
                  ELSE IF \/ is_none(real_file_to_delete.location)
                          \/ unwrap(real_file_to_delete.location) \notin removed.db.disk
                  THEN /\ SetDb(removed.db)
                       /\ Panic(c, after)
                  ELSE /\ SetDb([removed.db EXCEPT !.disk =
                                    @ \ {unwrap(real_file_to_delete.location)}])
                       /\ Respond(c, after, RequestedFileActionOkayCompleted, write_ok)
    /\ UNCHANGED <<cfgvars, pass_log>>
\* the link row (attacker of ip, credentials of the pair) exists in d
Linked(d, ip, username, password) ==
    LET a == get_attacker_by_ip(d.attackers, ip)
        cr == get_credentials_by_username_and_password(d.credentials, username, password)
    IN /\ is_some(a)
       /\ is_some(cr)
       /\ is_some(get_credentials_by_id_from_attacker(d.credentials, d.links,
                                                      unwrap(a), unwrap(cr).id))

\* the record of one PASS: the attacker row before and after, and the reply the
\* handler sent (None when the task died before replying)
PassRecord(client, password, d, r, reply) ==
    [ip |-> client.ip, username |-> client.username, password |-> password,
     pre |-> get_attacker_by_ip(d.attackers, client.ip),
     linked |-> Linked(d, client.ip, client.username, password),
     admitted |-> is_some(r.result) /\ ~r.panicked,
     panicked |-> r.panicked,
     reply |-> reply,
     post |-> get_attacker_by_ip(r.db.attackers, client.ip)]

\* mutant: a denied PASS leaves the bound attacker of the session as it was
pass_after_keeping(c, password, attacker_optional, write_ok) ==
    /\ sess[c].pc = "loop"
    /\ LET client == Handling(c, "PASS")
           r == is_login_valid_after(Db, attacker_optional, client.username,
                                     password, client.ip)
       IN IF r.panicked
          THEN /\ SetDb(r.db)
               /\ Panic(c, client)
               /\ pass_log' = Append(pass_log, PassRecord(client, password, Db, r, None))
          ELSE IF is_some(r.result)
          THEN LET model == unwrap(r.result)
                   reply == Some(UserLoggedInProceed)
                   rec == PassRecord(client, password, Db, r, reply)
               IN IF ~write_ok
                  THEN /\ SetDb(r.db)
                       /\ LeaveLoop(c, client, "write")
                       /\ pass_log' = Append(pass_log, rec)
                  ELSE IF is_none(model.file_system)
                  THEN /\ SetDb(r.db)
                       /\ Panic(c, [client EXCEPT !.reply = reply])
                       /\ pass_log' = Append(pass_log, [rec EXCEPT !.panicked = TRUE])
                  ELSE LET cleared == clear_path(r.db, unwrap(model.file_system),
                                                  model.id)
                           fs == cleared.fs
                           d == cleared.db
                       IN /\ SetDb(d)
                          /\ sess' = [sess EXCEPT ![c] =
                                 [client EXCEPT
                                     !.password = password,
                                     !.model = Some([model EXCEPT !.file_system = Some(fs)]),
                                     !.reply = reply]]
                          /\ UNCHANGED current_users
                          /\ pass_log' = Append(pass_log,
                                 [rec EXCEPT !.post = get_attacker_by_ip(d.attackers, client.ip)])
          ELSE LET reply == Some(NotLoggedIn)
                   rec == PassRecord(client, password, Db, r, reply)
               IN /\ SetDb(r.db)
                  /\ pass_log' = Append(pass_log, rec)
                  /\ Respond(c, [client EXCEPT !.password = password],
                             NotLoggedIn, write_ok)
    /\ UNCHANGED confvars

\* PASS once get_attacker_by_ip of is_login_valid has returned
\* attacker_optional: the rest of login, the reply, clear_path
pass_after(c, password, attacker_optional, write_ok) ==
    /\ sess[c].pc = "loop"
    /\ LET client == Handling(c, "PASS")
           r == is_login_valid_after(Db, attacker_optional, client.username,
                                     password, client.ip)
       IN IF r.panicked
          THEN /\ SetDb(r.db)
               /\ Panic(c, client)
               /\ pass_log' = Append(pass_log, PassRecord(client, password, Db, r, None))
          ELSE IF is_some(r.result)
          THEN LET model == unwrap(r.result)
                   reply == Some(UserLoggedInProceed)
                   rec == PassRecord(client, password, Db, r, reply)
               IN IF ~write_ok
                  THEN /\ SetDb(r.db)
                       /\ LeaveLoop(c, client, "write")
                       /\ pass_log' = Append(pass_log, rec)
                  ELSE IF is_none(model.file_system)
                  THEN /\ SetDb(r.db)
                       /\ Panic(c, [client EXCEPT !.reply = reply])
                       /\ pass_log' = Append(pass_log, [rec EXCEPT !.panicked = TRUE])
                  ELSE LET cleared == clear_path(r.db, unwrap(model.file_system),
                                                  model.id)
                           fs == cleared.fs
                           d == cleared.db
                       IN /\ SetDb(d)
                          /\ sess' = [sess EXCEPT ![c] =
                                 [client EXCEPT
                                     !.password = password,
                                     !.model = Some([model EXCEPT !.file_system = Some(fs)]),
                                     !.reply = reply]]
                          /\ UNCHANGED current_users
                          /\ pass_log' = Append(pass_log,
                                 [rec EXCEPT !.post = get_attacker_by_ip(d.attackers, client.ip)])
          ELSE LET reply == Some(NotLoggedIn)
                   rec == PassRecord(client, password, Db, r, reply)
               IN /\ SetDb(r.db)
                  /\ pass_log' = Append(pass_log, rec)
                  /\ Respond(c, [client EXCEPT !.password = password, !.model = None],
                             NotLoggedIn, write_ok)
    /\ UNCHANGED confvars

\* PASS: the handler from the query of is_login_valid to its reply
pass(c, password, write_ok) ==
    /\ pass_after(c, password, get_attacker_by_ip(attackers, sess[c].ip), write_ok)
    /\ UNCHANGED probe

\* ------------------------------------------------------- the housekeeper
\* the answers of the reputation service: three status codes, or no response
\* at all (the request fails)
NoResponse == 0
Responses == {200, 404, 429, NoResponse}

VtResultNegative == <<"Hash not found on VT.">>

\* format!("{}/{}/details", virus_total_result_url, hash)
vt_link(hash) == <<"virus_total_result_url", "/", hash, "/", "details">>

\* mutant: every row is returned, with or without a result
get_files_by_missing_virus_total_all(d) == [i \in 1..Len(d.files) |-> i]

\* SELECT ... WHERE virustotalResult IS NULL: the positions of the rows
get_files_by_missing_virus_total(d) ==
    SelectSeq([i \in 1..Len(d.files) |-> i],
              LAMBDA i : is_none(d.files[i].virustotal_result))

\* the result of a pass over the rows: the database, the file events posted
\* to the collector, and whether the task panicked
QueueResult(d, events, panicked) ==
    [db |-> d, events |-> events, panicked |-> panicked]

\* mutant: a 429 stores the negative result for its row before the pass ends
RECURSIVE get_virus_total_result_of_files_marking(_, _, _, _, _)
get_virus_total_result_of_files_marking(files, d, events, responses, posts) ==
    IF files = <<>>
    THEN QueueResult(d, events, FALSE)
    ELSE LET i == Head(files)
             model == d.files[i]
             response_code == Head(responses)
         IN IF response_code = NoResponse
            THEN QueueResult(d, events, TRUE)
            ELSE IF response_code = 429
            THEN QueueResult([d EXCEPT !.files[i].virustotal_result =
                                           Some(VtResultNegative)],
                             events, FALSE)
            ELSE LET virustotal_result ==
                         IF response_code = 200
                         THEN Some(vt_link(unwrap(model.hash)))
                         ELSE Some(VtResultNegative)
                     event == [file_id |-> model.id,
                               sha1 |-> <<unwrap(model.hash), " | ",
                                          unwrap(virustotal_result)>>,
                               delivered |-> Head(posts)]
                     updated == [d EXCEPT !.files[i].virustotal_result =
                                              virustotal_result]
                 IN get_virus_total_result_of_files_marking(
                        Tail(files), updated, Append(events, event),
                        Tail(responses), Tail(posts))

\* get_virus_total_result_of_files: one request per row, in order; 200 stores
\* the link, 429 ends the pass, every other status stores the negative
\* result; a request without a response panics in expect(); the file event
\* is posted to the collector, whose failure is logged, and the row is saved
RECURSIVE get_virus_total_result_of_files(_, _, _, _, _)
get_virus_total_result_of_files(files, d, events, responses, posts) ==
    IF files = <<>>
    THEN QueueResult(d, events, FALSE)
    ELSE LET i == Head(files)
             model == d.files[i]
             response_code == Head(responses)
         IN IF response_code = NoResponse
            THEN QueueResult(d, events, TRUE)
            ELSE IF response_code = 429
            THEN QueueResult(d, events, FALSE)
            ELSE LET virustotal_result ==
                         IF response_code = 200
                         THEN Some(vt_link(unwrap(model.hash)))
                         ELSE Some(VtResultNegative)
                     event == [file_id |-> model.id,
                               sha1 |-> <<unwrap(model.hash), " | ",
                                          unwrap(virustotal_result)>>,
                               delivered |-> Head(posts)]
                     updated == [d EXCEPT !.files[i].virustotal_result =
                                              virustotal_result]
                 IN get_virus_total_result_of_files(
                        Tail(files), updated, Append(events, event),
                        Tail(responses), Tail(posts))

\* virus_total_manager
virus_total_manager(d, events, responses, posts) ==
    get_virus_total_result_of_files(get_files_by_missing_virus_total(d), d,
                                    events, responses, posts)

\* what the database does with the UploadedFiles rows of a deleted attacker.
\* The schema is not part of the sources; the entity declares NoAction, which
\* a database enforces by refusing the delete or does not enforce at all; a
\* schema that cascades is the third outcome.
OnDeleteOutcomes == {"restrict", "orphan", "cascade"}

\* the positions of the rows find_with_related yields for the attackers that
\* were not updated for 7 days, by attacker id
get_files_of_attacker_not_updated_in_one_week(d, stale) ==
    SelectSeq([i \in 1..Len(d.files) |-> i],
              LAMBDA i : /\ is_some(d.files[i].attacker_id)
                         /\ unwrap(d.files[i].attacker_id) \in stale
                         /\ \E a \in d.attackers : a.id = unwrap(d.files[i].attacker_id))

\* delete_file for every row with a location; fs::remove_file of a file that
\* is not there panics
RECURSIVE delete_files(_, _)
delete_files(d, rows) ==
    IF rows = <<>>
    THEN [db |-> d, panicked |-> FALSE]
    ELSE LET file == d.files[Head(rows)]
         IN IF is_none(file.location)
            THEN delete_files(d, Tail(rows))
            ELSE IF unwrap(file.location) \notin d.disk
            THEN [db |-> d, panicked |-> TRUE]
            ELSE delete_files([d EXCEPT !.disk = @ \ {unwrap(file.location)}],
                              Tail(rows))

\* DELETE FROM Attackers WHERE updated < now - 7 days: the link rows cascade,
\* the UploadedFiles rows follow the schema
delete_attacker_if_not_updated_in_one_week(d, stale, on_delete) ==
    LET gone == {a \in d.attackers : a.id \in stale}
        referenced == \E i \in 1..Len(d.files) :
                         /\ is_some(d.files[i].attacker_id)
                         /\ \E a \in gone : a.id = unwrap(d.files[i].attacker_id)
    IN IF referenced /\ on_delete = "restrict"
       THEN [db |-> d, panicked |-> TRUE]
       ELSE [db |-> [d EXCEPT
                        !.attackers = @ \ gone,
                        !.links = SelectSeq(@, LAMBDA l :
                                      \A a \in gone : a.id # l.attacker_id),
                        !.files = IF on_delete = "cascade"
                                  THEN SelectSeq(@, LAMBDA f :
                                           ~(/\ is_some(f.attacker_id)
                                             /\ \E a \in gone :
                                                   a.id = unwrap(f.attacker_id)))
                                  ELSE @],
             panicked |-> FALSE]

\* mutant: the files on disk are left where they are
clean_up_attackers_and_files_rows_only(d, stale, on_delete) ==
    delete_attacker_if_not_updated_in_one_week(d, stale, on_delete)

\* clean_up_attackers_and_files
clean_up_attackers_and_files(d, stale, on_delete) ==
    LET cleaned == IF file_upload_real
                   THEN delete_files(d,
                            get_files_of_attacker_not_updated_in_one_week(d, stale))
                   ELSE [db |-> d, panicked |-> FALSE]
    IN IF cleaned.panicked
       THEN cleaned
       ELSE delete_attacker_if_not_updated_in_one_week(cleaned.db, stale, on_delete)

\* ------------------------------------------------- specifications
\* the argument MKD is sent with in the specifications of the login policy
NewDirs == {<<"upload">>}

InitState ==
    /\ attackers = {}
    /\ attacker_seq = 0
    /\ credentials = {}
    /\ attacker_to_credentials = <<>>
    /\ generated_files = [i \in AttackerIds |-> 0]
    /\ uploaded_files = <<>>
    /\ uploaded_file_seq = 0
    /\ disk = {}
    /\ current_users = 0
    /\ sess = [c \in Conns |-> Closed(None)]
    /\ pass_log = <<>>

\* no function is probed in the specifications of the connection tasks
NoProbe == [op |-> "none"]

\* the login policy under every threshold up to MaxTries, one session at a time
Init ==
    /\ number_of_tries_before_success \in 1..MaxTries
    /\ max_concurrent_users = DefaultMaxConcurrentUsers
    /\ file_upload_real = FALSE
    /\ can_be_downloaded = FALSE
    /\ InitState
    /\ probe = NoProbe

Next ==
    \/ \E c \in LoginConns, ip \in IPs : accept(c, ip)
    \/ \E c \in LoginConns, write_ok \in BOOLEAN : check_users(c, write_ok)
    \/ \E c \in LoginConns : enter(c, TRUE)
    \/ \E c \in LoginConns, write_ok \in BOOLEAN :
          \E p \in Wordlist(sess[c].ip) : user(c, p.username, write_ok)
    \/ \E c \in LoginConns, write_ok \in BOOLEAN :
          \E p \in Wordlist(sess[c].ip) :
             /\ Len(pass_log) < MaxPass
             /\ p.username = sess[c].username
             /\ pass(c, p.password, write_ok)
    \/ \E c \in LoginConns, write_ok \in BOOLEAN :
          \E new_dir \in NewDirs : mkd(c, new_dir, write_ok)
    \/ \E c \in LoginConns, write_ok \in BOOLEAN : quit(c, write_ok)
    \/ \E c \in LoginConns : decode_error(c)

Spec == Init /\ [][Next]_vars

\* scenarios S1 and S2: threshold 3, a fresh database
InitScenario ==
    /\ number_of_tries_before_success = 3
    /\ max_concurrent_users = DefaultMaxConcurrentUsers
    /\ file_upload_real = FALSE
    /\ can_be_downloaded = FALSE
    /\ InitState
    /\ probe = NoProbe

NextScenario ==
    \/ \E c \in LoginConns, ip \in IPs : accept(c, ip)
    \/ \E c \in LoginConns, write_ok \in BOOLEAN : check_users(c, write_ok)
    \/ \E c \in LoginConns : enter(c, TRUE)
    \/ \E c \in LoginConns, write_ok \in BOOLEAN :
          \E p \in ScenarioWordlist(sess[c].ip) : user(c, p.username, write_ok)
    \/ \E c \in LoginConns, write_ok \in BOOLEAN :
          \E p \in ScenarioWordlist(sess[c].ip) :
             /\ Len(pass_log) < MaxScenarioPass
             /\ p.username = sess[c].username
             /\ pass(c, p.password, write_ok)
    \/ \E c \in LoginConns, write_ok \in BOOLEAN : quit(c, write_ok)
    \/ \E c \in LoginConns : decode_error(c)

SpecScenario == InitScenario /\ [][NextScenario]_vars

\* the listener with several connection tasks running at once
InitCap ==
    /\ number_of_tries_before_success = DefaultTries
    /\ max_concurrent_users \in 1..MaxCap
    /\ file_upload_real = FALSE
    /\ can_be_downloaded = FALSE
    /\ InitState
    /\ probe = NoProbe

NextCap ==
    \/ \E c \in Conns, ip \in IPs : accept(c, ip)
    \/ \E c \in Conns, write_ok \in BOOLEAN : check_users(c, write_ok)
    \/ \E c \in Conns, write_ok \in BOOLEAN : enter(c, write_ok)
    \/ \E c \in Conns, write_ok \in BOOLEAN :
          \E p \in CapWordlist(sess[c].ip) : user(c, p.username, write_ok)
    \/ \E c \in Conns, write_ok \in BOOLEAN :
          \E p \in CapWordlist(sess[c].ip) :
             /\ Len(pass_log) < MaxCapPass
             /\ p.username = sess[c].username
             /\ pass(c, p.password, write_ok)
    \/ \E c \in Conns, write_ok \in BOOLEAN : quit(c, write_ok)
    \/ \E c \in Conns : decode_error(c)

SpecCap == InitCap /\ [][NextCap]_vars

\* ------------------------------------- one session at a time, every verb
\* the most PASS commands handled in SpecVerbs
MaxVerbsPass == 2

\* the most PASS commands handled in SpecSession
MaxSessionPass == 3

\* the one address the clients of SpecVerbs and SpecSession connect from
SessionIPs == {"1.2.3.4"}

\* the pairs they log in with
SessionWordlist == {Pair("alice", "a"), Pair("alice", "b")}

\* the arguments SpecVerbs sends: paths that name nothing in the skeleton, so
\* that the tree stays as it is
MissingDir == {<<"nosuch">>}
MissingFile == {<<"nosuch">>}
UnderMissingDir == {<<"nosuch", "/", "loot">>}
ListArgs == {NoArgument, <<"nosuch">>}
PortArgs == {<<127, 0, 0, 1, 4, 1>>, <<127, 0, 0, 1>>}
VerbsBodies == {<<7>>}
ModeArgs == {"S", "B"}
StruArgs == {"F", "R"}

\* threshold 1: the second pair an address presents is bound and admitted
InitVerbs ==
    /\ number_of_tries_before_success = 1
    /\ max_concurrent_users = DefaultMaxConcurrentUsers
    /\ file_upload_real = FALSE
    /\ can_be_downloaded = FALSE
    /\ InitState
    /\ probe = NoProbe

NextVerbs ==
    \/ \E c \in LoginConns, ip \in SessionIPs : accept(c, ip)
    \/ \E c \in LoginConns, write_ok \in BOOLEAN : check_users(c, write_ok)
    \/ \E c \in LoginConns, write_ok \in BOOLEAN : enter(c, write_ok)
    \/ \E c \in LoginConns, write_ok \in BOOLEAN :
          \E p \in SessionWordlist : user(c, p.username, write_ok)
    \/ \E c \in LoginConns, write_ok \in BOOLEAN :
          \E p \in SessionWordlist :
             /\ Len(pass_log) < MaxVerbsPass
             /\ p.username = sess[c].username
             /\ pass(c, p.password, write_ok)
    \/ \E c \in LoginConns, write_ok \in BOOLEAN : acct(c, write_ok)
    \/ \E c \in LoginConns, write_ok \in BOOLEAN : syst(c, write_ok)
    \/ \E c \in LoginConns, write_ok \in BOOLEAN :
          \E argument \in ModeArgs : mode(c, argument, write_ok)
    \/ \E c \in LoginConns, write_ok \in BOOLEAN :
          \E argument \in StruArgs : stru(c, argument, write_ok)
    \/ \E c \in LoginConns, write_ok \in BOOLEAN : help(c, write_ok)
    \/ \E c \in LoginConns, write_ok \in BOOLEAN : noop(c, write_ok)
    \/ \E c \in LoginConns, write_ok \in BOOLEAN : quit(c, write_ok)
    \/ \E c \in LoginConns, write_ok \in BOOLEAN :
          \E argument \in MissingDir : cwd(c, argument, write_ok)
    \/ \E c \in LoginConns, write_ok \in BOOLEAN, overflow_checks \in BOOLEAN :
          \E nums \in PortArgs : port(c, nums, overflow_checks, write_ok)
    \/ \E c \in LoginConns, write_ok \in BOOLEAN : fn_type(c, write_ok)
    \/ \E c \in LoginConns, fault \in Faults :
          \E argument \in UnderMissingDir, body \in VerbsBodies :
             stor(c, argument, body, fault)
    \/ \E c \in LoginConns, write_ok \in BOOLEAN :
          \E new_dir \in UnderMissingDir : mkd(c, new_dir, write_ok)
    \/ \E c \in LoginConns, write_ok \in BOOLEAN : pwd(c, write_ok)
    \/ \E c \in LoginConns, fault \in Faults :
          \E argument \in ListArgs : list(c, argument, fault)
    \/ \E c \in LoginConns, write_ok \in BOOLEAN :
          \E file_to_delete \in MissingFile : dele(c, file_to_delete, write_ok)
    \/ \E c \in LoginConns, fault \in Faults :
          \E argument \in MissingFile : retr(c, argument, fault)
    \/ \E c \in LoginConns, write_ok \in BOOLEAN :
          \E dir_to_delete \in MissingDir : rmd(c, dir_to_delete, write_ok)
    \/ \E c \in LoginConns, write_ok \in BOOLEAN : cdup(c, write_ok)
    \/ \E c \in LoginConns, write_ok \in BOOLEAN : allo(c, write_ok)
    \/ \E c \in LoginConns, write_ok \in BOOLEAN : stat(c, write_ok)
    \/ \E c \in LoginConns, write_ok \in BOOLEAN : not_supported(c, write_ok)
    \/ \E c \in LoginConns : decode_error(c)

SpecVerbs == InitVerbs /\ [][NextVerbs]_vars

\* ------------------------- one session at a time, the directory verbs
\* the arguments SpecSession sends: a directory that exists and one that
\* does not, a new directory /upload, the existing and not empty /documents,
\* a parent that does not resolve, a file that does not exist
CwdArgs == {<<"documents">>, <<"nosuch">>}
MkdArgs == {<<"/", "upload">>, <<"/", "documents">>, <<"nosuch", "/", "upload">>}
RmdArgs == {<<"/", "upload">>, <<"/", "documents">>, <<"nosuch">>}
DeleArgs == {<<"nosuch">>, <<"nosuch", "/", "loot">>}

InitSession ==
    /\ number_of_tries_before_success = 1
    /\ max_concurrent_users = DefaultMaxConcurrentUsers
    /\ file_upload_real = FALSE
    /\ can_be_downloaded = FALSE
    /\ InitState
    /\ probe = NoProbe

NextSession ==
    \/ \E c \in LoginConns, ip \in SessionIPs : accept(c, ip)
    \/ \E c \in LoginConns, write_ok \in BOOLEAN : check_users(c, write_ok)
    \/ \E c \in LoginConns : enter(c, TRUE)
    \/ \E c \in LoginConns, write_ok \in BOOLEAN :
          \E p \in SessionWordlist : user(c, p.username, write_ok)
    \/ \E c \in LoginConns, write_ok \in BOOLEAN :
          \E p \in SessionWordlist :
             /\ Len(pass_log) < MaxSessionPass
             /\ p.username = sess[c].username
             /\ pass(c, p.password, write_ok)
    \/ \E c \in LoginConns, write_ok \in BOOLEAN : quit(c, write_ok)
    \/ \E c \in LoginConns, write_ok \in BOOLEAN :
          \E argument \in CwdArgs : cwd(c, argument, write_ok)
    \/ \E c \in LoginConns, write_ok \in BOOLEAN :
          \E new_dir \in MkdArgs : mkd(c, new_dir, write_ok)
    \/ \E c \in LoginConns, write_ok \in BOOLEAN : pwd(c, write_ok)
    \/ \E c \in LoginConns, write_ok \in BOOLEAN :
          \E file_to_delete \in DeleArgs : dele(c, file_to_delete, write_ok)
    \/ \E c \in LoginConns, write_ok \in BOOLEAN :
          \E dir_to_delete \in RmdArgs : rmd(c, dir_to_delete, write_ok)

SpecSession == InitSession /\ [][NextSession]_vars

\* ----------------------- one session that stores, with uploads kept or not
\* the most PASS commands of a behaviour of SpecStore
MaxStorePass == 2

\* the most STOR commands that reach the disk in a behaviour of SpecStore
MaxStored == 2

\* the arguments SpecStore sends: the new directory /upload, a file name in
\* the working directory, a name under a directory that does not exist, and
\* two bodies of different sizes
StoreCwdArgs == {<<"upload">>}
StoreMkdArgs == {<<"/", "upload">>}
StoreRmdArgs == {<<"/", "upload">>}
StoreArgs == {<<"loot">>, <<"nosuch", "/", "loot">>}
StoreDeleArgs == {<<"loot">>}
StorePortArgs == {<<127, 0, 0, 1, 4, 1>>}
Bodies == {<<7>>, <<7, 7>>}
StoreFaults == {"none"}

InitStore ==
    /\ number_of_tries_before_success = 1
    /\ max_concurrent_users = DefaultMaxConcurrentUsers
    /\ file_upload_real \in BOOLEAN
    /\ can_be_downloaded = FALSE
    /\ InitState
    /\ probe = NoProbe

NextStore ==
    \/ \E c \in LoginConns, ip \in SessionIPs : accept(c, ip)
    \/ \E c \in LoginConns : check_users(c, TRUE)
    \/ \E c \in LoginConns : enter(c, TRUE)
    \/ \E c \in LoginConns, p \in SessionWordlist : user(c, p.username, TRUE)
    \/ \E c \in LoginConns, p \in SessionWordlist :
          /\ Len(pass_log) < MaxStorePass
          /\ p.username = sess[c].username
          /\ pass(c, p.password, TRUE)
    \/ \E c \in LoginConns, nums \in StorePortArgs : port(c, nums, TRUE, TRUE)
    \/ \E c \in LoginConns, argument \in StoreCwdArgs : cwd(c, argument, TRUE)
    \/ \E c \in LoginConns, new_dir \in StoreMkdArgs : mkd(c, new_dir, TRUE)
    \/ \E c \in LoginConns, dir_to_delete \in StoreRmdArgs : rmd(c, dir_to_delete, TRUE)
    \/ \E c \in LoginConns, file_to_delete \in StoreDeleArgs :
          dele(c, file_to_delete, TRUE)
    \/ \E c \in LoginConns, argument \in StoreArgs, body \in Bodies,
          fault \in StoreFaults :
          /\ uploaded_file_seq < MaxStored
          /\ Cardinality(disk) < AmountOfFilesToCopy + MaxStored
          /\ stor(c, argument, body, fault)

SpecStore == InitStore /\ [][NextStore]_vars

\* ------------------------------------------- the housekeeper on its own
\* the most UploadedFiles rows of a database the housekeeper starts with
MaxFiles == 2

\* the most ticks of a behaviour of SpecQueue
MaxTicks == 2

\* two attackers; each row of UploadedFiles belongs to one of them, has its
\* own hash, no result of the reputation service yet and, when uploads are
\* kept, possibly a location of its own
QueueAttackers ==
    {[id |-> i, ip |-> <<"1.2.3.4", "5.6.7.8">>[i], login_count |-> 1,
      credentials_id |-> None, file_system |-> None] : i \in 1..2}

QueueLinks ==
    <<[attacker_id |-> 1, credentials_id |-> 1],
      [attacker_id |-> 2, credentials_id |-> 1]>>

QueueFileRows(i, real) ==
    {[id |-> i, filename |-> "loot", attacker_id |-> Some(a), size |-> 1,
      hash |-> Some(<<"h1", "h2", "h3">>[i]),
      location |-> IF located
                   THEN Some(user_path(a, <<random_filename(i)>>))
                   ELSE None,
      virustotal_result |-> None] :
        a \in 1..2, located \in IF real THEN BOOLEAN ELSE {FALSE}}

QueueFiles(real) ==
    UNION {{f \in [1..n -> UNION {QueueFileRows(i, real) : i \in 1..n}] :
               \A i \in 1..n : f[i] \in QueueFileRows(i, real)} : n \in 0..MaxFiles}

\* the locations the rows of a table name
Locations(files) ==
    {unwrap(files[i].location) : i \in {j \in 1..Len(files) : is_some(files[j].location)}}

\* the database the housekeeper is started on and the deployment's schema;
\* attacker 1 was not updated for 7 days, attacker 2 was; a file at a
\* location may have been removed by DELE already
InitQueue ==
    /\ number_of_tries_before_success = 1
    /\ max_concurrent_users = DefaultMaxConcurrentUsers
    /\ file_upload_real \in BOOLEAN
    /\ can_be_downloaded = FALSE
    /\ attackers = QueueAttackers
    /\ attacker_seq = 2
    /\ credentials = {[id |-> 1, username |-> "alice", password |-> "a", count |-> 2]}
    /\ attacker_to_credentials = QueueLinks
    /\ generated_files = [i \in AttackerIds |-> 0]
    /\ uploaded_files \in QueueFiles(file_upload_real)
    /\ uploaded_file_seq = Len(uploaded_files)
    /\ \E kept \in SUBSET Locations(uploaded_files) :
          disk = kept \cup {user_path(1, <<"seed01">>), user_path(2, <<"seed01">>)}
    /\ current_users = 0
    /\ sess = [c \in Conns |-> Closed(None)]
    /\ pass_log = <<>>
    /\ probe \in [op : {"queue"}, pc : {"tick"}, cause : {""}, ticks : {0},
                  events : {<<>>}, responses : {<<>>}, stale : {{1}},
                  on_delete : OnDeleteOutcomes]

\* the responses a pass over n rows can receive: one per row, or fewer when
\* the last one is a 429 or a request that fails, after which no request is
\* sent
Received(n) ==
    UNION {{r \in [1..m -> Responses] :
               /\ \A k \in 1..(m - 1) : r[k] \notin {429, NoResponse}
               /\ m < n => (m > 0 /\ r[m] \in {429, NoResponse})} : m \in 0..n}

\* interval.tick() and virus_total_manager: the first half of an iteration of
\* the loop of start_queue; a panic ends the spawned task
tick_virus_total(responses, posts) ==
    /\ probe.op = "queue"
    /\ probe.pc = "tick"
    /\ probe.ticks < MaxTicks
    /\ LET r == virus_total_manager(Db, probe.events, responses, posts)
       IN /\ SetDb(r.db)
          /\ probe' = [probe EXCEPT
                          !.events = r.events,
                          !.responses = responses,
                          !.pc = IF r.panicked THEN "dead" ELSE "clean",
                          !.cause = IF r.panicked THEN "http" ELSE @]
    /\ UNCHANGED <<confvars, current_users, sess, pass_log>>

\* clean_up_attackers_and_files: the second half of the iteration
tick_clean_up ==
    /\ probe.op = "queue"
    /\ probe.pc = "clean"
    /\ LET r == clean_up_attackers_and_files(Db, probe.stale, probe.on_delete)
       IN /\ SetDb(r.db)
          /\ probe' = [probe EXCEPT
                          !.pc = IF r.panicked THEN "dead" ELSE "tick",
                          !.cause = IF r.panicked THEN "purge" ELSE @,
                          !.ticks = IF r.panicked THEN @ ELSE @ + 1]
    /\ UNCHANGED <<confvars, current_users, sess, pass_log>>

NextQueue ==
    \/ \E responses \in Received(Len(get_files_by_missing_virus_total(Db))),
          collector_up \in BOOLEAN :
          tick_virus_total(responses, [i \in 1..MaxFiles |-> collector_up])
    \/ tick_clean_up

SpecQueue == InitQueue /\ [][NextQueue]_vars

\* ------------------------------- one session that transfers over the data
\* channel, under every configuration of the two upload switches
\* the most PASS commands of a behaviour of SpecTransfer
MaxTransferPass == 2

\* the most STOR commands that are recorded in a behaviour of SpecTransfer
MaxTransferStored == 1

\* the arguments SpecTransfer sends: two data-channel targets, the decoy of
\* the root directory, a name to store and retrieve, a name no file has
TransferPortArgs == {<<127, 0, 0, 1, 4, 1>>, <<127, 0, 0, 1, 4, 2>>}
TransferStorArgs == {<<"loot">>}
RetrArgs == {<<"seed14">>, <<"loot">>, <<"nosuch">>}
TransferListArgs == {NoArgument}
TransferFaults == {"none"}

InitTransfer ==
    /\ number_of_tries_before_success = 1
    /\ max_concurrent_users = DefaultMaxConcurrentUsers
    /\ file_upload_real \in BOOLEAN
    /\ can_be_downloaded \in BOOLEAN
    /\ InitState
    /\ probe = NoProbe

NextTransfer ==
    \/ \E c \in LoginConns, ip \in SessionIPs : accept(c, ip)
    \/ \E c \in LoginConns : check_users(c, TRUE)
    \/ \E c \in LoginConns : enter(c, TRUE)
    \/ \E c \in LoginConns, p \in SessionWordlist : user(c, p.username, TRUE)
    \/ \E c \in LoginConns, p \in SessionWordlist :
          /\ Len(pass_log) < MaxTransferPass
          /\ p.username = sess[c].username
          /\ pass(c, p.password, TRUE)
    \/ \E c \in LoginConns, nums \in TransferPortArgs : port(c, nums, TRUE, TRUE)
    \/ \E c \in LoginConns, argument \in TransferListArgs, fault \in TransferFaults :
          list(c, argument, fault)
    \/ \E c \in LoginConns, argument \in TransferStorArgs, fault \in TransferFaults :
          /\ uploaded_file_seq < MaxTransferStored
          /\ stor(c, argument, <<7>>, fault)
    \/ \E c \in LoginConns, argument \in RetrArgs, fault \in TransferFaults :
          retr(c, argument, fault)

SpecTransfer == InitTransfer /\ [][NextTransfer]_vars

\* --------------------------- two sessions of one attacker at the same time
\* the most PASS commands of a behaviour of SpecRace
MaxRacePass == 3

\* the two connection tasks of SpecRace, both from the one address
RaceConns == {1, 2}

\* the directories the sessions of SpecRace make
RaceMkdArgs == {<<"/", "a">>, <<"/", "b">>}

InitRace ==
    /\ number_of_tries_before_success = 1
    /\ max_concurrent_users = DefaultMaxConcurrentUsers
    /\ file_upload_real = FALSE
    /\ can_be_downloaded = FALSE
    /\ InitState
    /\ probe = NoProbe

NextRace ==
    \/ \E c \in RaceConns, ip \in SessionIPs : accept(c, ip)
    \/ \E c \in RaceConns : check_users(c, TRUE)
    \/ \E c \in RaceConns : enter(c, TRUE)
    \/ \E c \in RaceConns, p \in SessionWordlist : user(c, p.username, TRUE)
    \/ \E c \in RaceConns, p \in SessionWordlist :
          /\ Len(pass_log) < MaxRacePass
          /\ p.username = sess[c].username
          /\ pass(c, p.password, TRUE)
    \/ \E c \in RaceConns, new_dir \in RaceMkdArgs : mkd(c, new_dir, TRUE)

SpecRace == InitRace /\ [][NextRace]_vars

\* ------------------- two sessions of one address that log in at the same
\* time: PASS in two steps, the first query of is_login_valid and the rest
\* the most PASS commands of a behaviour of SpecLogins
MaxLoginsPass == 3

\* a PASS of session c is between its first query and the rest
Pending(c) == is_some(probe.pending[c])

\* the PASS commands begun
Begun == Len(pass_log) + Cardinality({c \in RaceConns : Pending(c)})

InitLogins ==
    /\ number_of_tries_before_success = 1
    /\ max_concurrent_users = DefaultMaxConcurrentUsers
    /\ file_upload_real = FALSE
    /\ can_be_downloaded = FALSE
    /\ InitState
    /\ probe = [op |-> "logins", pending |-> [c \in RaceConns |-> None]]

\* client.password = ..; login: create_json_and_send_request, then the
\* await of db.get_attacker_by_ip(ip) in is_login_valid
pass_query(c, password) ==
    /\ sess[c].pc = "loop"
    /\ ~Pending(c)
    /\ probe' = [probe EXCEPT !.pending[c] =
                    Some([password |-> password,
                          attacker_optional |->
                              get_attacker_by_ip(attackers, sess[c].ip)])]
    /\ UNCHANGED <<confvars, taskvars>>

\* the rest of PASS, on the database as the other tasks have left it
pass_rest(c) ==
    /\ Pending(c)
    /\ pass_after(c, unwrap(probe.pending[c]).password,
                  unwrap(probe.pending[c]).attacker_optional, TRUE)
    /\ probe' = [probe EXCEPT !.pending[c] = None]

NextLogins ==
    \/ \E c \in RaceConns, ip \in SessionIPs : accept(c, ip)
    \/ \E c \in RaceConns : check_users(c, TRUE)
    \/ \E c \in RaceConns : enter(c, TRUE)
    \/ \E c \in RaceConns, p \in Wordlist("1.2.3.4") :
          /\ ~Pending(c)
          /\ user(c, p.username, TRUE)
    \/ \E c \in RaceConns, p \in Wordlist("1.2.3.4") :
          /\ Begun < MaxLoginsPass
          /\ p.username = sess[c].username
          /\ pass_query(c, p.password)
    \/ \E c \in RaceConns : pass_rest(c)

SpecLogins == InitLogins /\ [][NextLogins]_vars

\* ------------------------- one stale purge while sessions and time go on
\* the rows of UploadedFiles the purge starts with: every row has its file on
\* disk
PurgeFiles ==
    {f \in QueueFiles(TRUE) : \A i \in 1..Len(f) : is_some(f[i].location)}

\* uploads are kept; probe.stale is the set of attackers whose updated is
\* more than 7 days old at the moment, probe.listed the attackers the first
\* query returned
InitPurge ==
    /\ number_of_tries_before_success = 1
    /\ max_concurrent_users = DefaultMaxConcurrentUsers
    /\ file_upload_real = TRUE
    /\ can_be_downloaded = FALSE
    /\ attackers = QueueAttackers
    /\ attacker_seq = 2
    /\ credentials = {[id |-> 1, username |-> "alice", password |-> "a", count |-> 2]}
    /\ attacker_to_credentials = QueueLinks
    /\ generated_files = [i \in AttackerIds |-> 0]
    /\ uploaded_files \in PurgeFiles
    /\ uploaded_file_seq = Len(uploaded_files)
    /\ disk = Locations(uploaded_files)
                 \cup {user_path(1, <<"seed01">>), user_path(2, <<"seed01">>)}
    /\ current_users = 0
    /\ sess = [c \in Conns |-> Closed(None)]
    /\ pass_log = <<>>
    /\ probe \in [op : {"purge"}, pc : {"list"}, stale : SUBSET {1, 2},
                  listed : {{}}, start : {uploaded_files},
                  on_delete : OnDeleteOutcomes]

\* get_files_of_attacker_not_updated_in_one_week, evaluated at its own
\* now - 7 days, and delete_file for the rows it returned
purge_files ==
    /\ probe.op = "purge"
    /\ probe.pc = "list"
    /\ LET r == delete_files(Db,
                    get_files_of_attacker_not_updated_in_one_week(Db, probe.stale))
       IN /\ SetDb(r.db)
          /\ probe' = [probe EXCEPT !.pc = IF r.panicked THEN "dead" ELSE "delete",
                                    !.listed = probe.stale]
    /\ UNCHANGED <<confvars, current_users, sess, pass_log>>

\* delete_attacker_if_not_updated_in_one_week, evaluated at its own
\* now - 7 days
purge_rows ==
    /\ probe.op = "purge"
    /\ probe.pc = "delete"
    /\ LET r == delete_attacker_if_not_updated_in_one_week(Db, probe.stale,
                                                           probe.on_delete)
       IN /\ SetDb(r.db)
          /\ probe' = [probe EXCEPT !.pc = IF r.panicked THEN "dead" ELSE "done"]
    /\ UNCHANGED <<confvars, current_users, sess, pass_log>>

\* a session writes the row of attacker a (any PASS of its address does):
\* ON UPDATE CURRENT_TIMESTAMP sets updated to now
touch_attacker(a) ==
    /\ probe.op = "purge"
    /\ probe.pc \in {"list", "delete"}
    /\ a \in probe.stale
    /\ \E row \in attackers : row.id = a
    /\ probe' = [probe EXCEPT !.stale = @ \ {a}]
    /\ UNCHANGED <<confvars, taskvars>>

\* time passes: the updated of attacker a becomes more than 7 days old
age_attacker(a) ==
    /\ probe.op = "purge"
    /\ probe.pc \in {"list", "delete"}
    /\ a \notin probe.stale
    /\ probe' = [probe EXCEPT !.stale = @ \cup {a}]
    /\ UNCHANGED <<confvars, taskvars>>

NextPurge ==
    \/ purge_files
    \/ purge_rows
    \/ \E a \in {1, 2} : touch_attacker(a)
    \/ \E a \in {1, 2} : age_attacker(a)

SpecPurge == InitPurge /\ [][NextPurge]_vars

\* ---------------------------------------- path resolution on its own
\* the most components a probed path argument has
MaxComponents == 3

\* the components of the probed arguments: directory names of the skeleton, a
\* name no directory has, and the two special components
Components == {"documents", "private", "pictures", "nosuch", "..", "."}

\* the components that are plain names
Names == Components \ {"..", "."}

\* the arguments CWD is probed with: up to MaxComponents components, with and
\* without a leading and a trailing "/"
PathArgs ==
    {(IF lead THEN <<"/">> ELSE <<>>) \o join_path(ns)
                                      \o (IF trail THEN <<"/">> ELSE <<>>) :
        ns \in UNION {[1..n -> Components] : n \in 0..MaxComponents},
        lead \in BOOLEAN, trail \in BOOLEAN}

\* the working directories the skeleton allows
CwdPaths ==
    {p \in UNION {[1..n -> Names] : n \in 0..2} :
        cd(new_fs_of_attacker(1).root, p)}

\* a filesystem with its working directory somewhere in the skeleton, and an
\* argument for cd_as_str
InitPath ==
    /\ number_of_tries_before_success = DefaultTries
    /\ max_concurrent_users = DefaultMaxConcurrentUsers
    /\ file_upload_real = FALSE
    /\ can_be_downloaded = FALSE
    /\ InitState
    /\ probe \in {[op |-> "cd", applied |-> FALSE, arg |-> arg, ok |-> FALSE,
                   resolved |-> None,
                   from |-> [new_fs_of_attacker(1) EXCEPT !.path = dir],
                   fs |-> [new_fs_of_attacker(1) EXCEPT !.path = dir]] :
                     dir \in CwdPaths, arg \in PathArgs}

\* resolve_path, then cd_as_str, on the probed filesystem
apply_cd_as_str ==
    /\ probe.op = "cd"
    /\ ~probe.applied
    /\ LET r == cd_as_str(probe.fs, probe.arg)
       IN probe' = [probe EXCEPT !.applied = TRUE,
                                 !.resolved = resolve_path(probe.fs, probe.arg),
                                 !.fs = r.fs,
                                 !.ok = r.ok]
    /\ UNCHANGED <<confvars, taskvars>>

NextPath == apply_cd_as_str

SpecPath == InitPath /\ [][NextPath]_vars

\* ------------------------------------------------- FtpNode::ls on its own
\* the most entries the listed directory has
MaxEntries == 3

\* the names the entries of the listed directory are given
LsNames == {"", "a", "b", "ab", "B"}

\* an empty directory
InitLs ==
    /\ number_of_tries_before_success = DefaultTries
    /\ max_concurrent_users = DefaultMaxConcurrentUsers
    /\ file_upload_real = FALSE
    /\ can_be_downloaded = FALSE
    /\ InitState
    /\ probe = [op |-> "ls", node |-> generate_dir("root", 0),
                listed |-> generate_dir("root", 0), out |-> None]

\* node.dirs.insert(name, generate_dir(name, 0))
dirs_insert(dir_name) ==
    /\ probe.op = "ls"
    /\ Cardinality(DOMAIN probe.node.dirs) + Len(probe.node.files) < MaxEntries
    /\ dir_name \notin DOMAIN probe.node.dirs
    /\ probe' = [probe EXCEPT
                    !.node.dirs = [n \in (DOMAIN @) \cup {dir_name} |->
                                      IF n = dir_name
                                      THEN generate_dir(dir_name, 0)
                                      ELSE @[n]],
                    !.out = None]
    /\ UNCHANGED <<confvars, taskvars>>

\* node.files.push(FtpFile { name, .. })
files_push(file_name) ==
    /\ probe.op = "ls"
    /\ Cardinality(DOMAIN probe.node.dirs) + Len(probe.node.files) < MaxEntries
    /\ probe' = [probe EXCEPT
                    !.node.files = Append(@, [name |-> file_name, size |-> 1,
                                              file_id |-> None,
                                              default_file |-> None]),
                    !.out = None]
    /\ UNCHANGED <<confvars, taskvars>>

\* node.ls(), the children being iterated in the order values
apply_ls(values) ==
    /\ probe.op = "ls"
    /\ LET r == ls(probe.node, values)
       IN probe' = [probe EXCEPT !.listed = probe.node,
                                 !.node = r.node,
                                 !.out = Some(r.out)]
    /\ UNCHANGED <<confvars, taskvars>>

NextLs ==
    \/ \E dir_name \in LsNames : dirs_insert(dir_name)
    \/ \E file_name \in LsNames : files_push(file_name)
    \/ \E values \in Orders(DOMAIN probe.node.dirs) : apply_ls(values)

SpecLs == InitLs /\ [][NextLs]_vars

\* ------------------------------------------------ the decoder on its own
\* the variants of Command and the bytes of their names, which the derived
\* FromStr compares a string with
CommandNames ==
    [USER |-> <<85, 83, 69, 82>>,
     PASS |-> <<80, 65, 83, 83>>,
     ACCT |-> <<65, 67, 67, 84>>,
     QUIT |-> <<81, 85, 73, 84>>,
     PORT |-> <<80, 79, 82, 84>>,
     TYPE |-> <<84, 89, 80, 69>>,
     MODE |-> <<77, 79, 68, 69>>,
     STRU |-> <<83, 84, 82, 85>>,
     RETR |-> <<82, 69, 84, 82>>,
     STOR |-> <<83, 84, 79, 82>>,
     SYST |-> <<83, 89, 83, 84>>,
     CWD |-> <<67, 87, 68>>,
     NOOP |-> <<78, 79, 79, 80>>,
     HELP |-> <<72, 69, 76, 80>>,
     MKD |-> <<77, 75, 68>>,
     PWD |-> <<80, 87, 68>>,
     LIST |-> <<76, 73, 83, 84>>,
     CDUP |-> <<67, 68, 85, 80>>,
     DELE |-> <<68, 69, 76, 69>>,
     ALLO |-> <<65, 76, 76, 79>>,
     RMD |-> <<82, 77, 68>>,
     STAT |-> <<83, 84, 65, 84>>,
     NOT_SUPPORTED |-> <<78, 79, 84, 95, 83, 85, 80, 80, 79, 82, 84, 69, 68>>]

\* Command::from_str: the variant whose name is the string, byte for byte
from_str(s) ==
    IF \E v \in DOMAIN CommandNames : CommandNames[v] = s
    THEN Some(CHOOSE v \in DOMAIN CommandNames : CommandNames[v] = s)
    ELSE None

\* packet.replace("\r\n", " ")
RECURSIVE replace_crlf(_)
replace_crlf(packet) ==
    IF packet = <<>>
    THEN <<>>
    ELSE IF Len(packet) >= 2 /\ SubSeq(packet, 1, 2) = CRLF
    THEN <<32>> \o replace_crlf(SubSeq(packet, 3, Len(packet)))
    ELSE <<Head(packet)>> \o replace_crlf(Tail(packet))

\* altered_string.split(' '): the pieces between the spaces, empty ones
\* included
RECURSIVE split_spaces(_)
split_spaces(s) ==
    IF s = <<>>
    THEN <<<<>>>>
    ELSE IF Head(s) = 32
    THEN <<<<>>>> \o split_spaces(Tail(s))
    ELSE [split_spaces(Tail(s)) EXCEPT ![1] = <<Head(s)>> \o @]

\* str::to_ascii_uppercase, which the decoder does not call: the verb a
\* token names when case is ignored
to_ascii_uppercase(s) ==
    [i \in 1..Len(s) |-> IF s[i] \in 97..122 THEN s[i] - 32 ELSE s[i]]

\* mutant: a packet with a single piece is a verb without an argument
decode_lenient(packet) ==
    LET vector_string == split_spaces(replace_crlf(packet))
        command_res == from_str(vector_string[1])
    IN [ok |-> TRUE,
        command |-> IF command_res = None
                    THEN "NOT_SUPPORTED"
                    ELSE unwrap(command_res),
        argument |-> IF Len(vector_string) <= 1 THEN <<>> ELSE vector_string[2]]

\* Decoder::decode: a packet with a single piece is an error; the first piece
\* is matched as it is against the names of Command, NOT_SUPPORTED when none
\* matches; the second piece is the argument
decode(packet) ==
    LET vector_string == split_spaces(replace_crlf(packet))
    IN IF Len(vector_string) <= 1
       THEN [ok |-> FALSE, command |-> "", argument |-> <<>>]
       ELSE LET command_res == from_str(vector_string[1])
            IN [ok |-> TRUE,
                command |-> IF command_res = None
                            THEN "NOT_SUPPORTED"
                            ELSE unwrap(command_res),
                argument |-> vector_string[2]]

\* the verbs the probed packets begin with: three of Command and PASV, which
\* Command does not have
DecodeVerbs == {<<85, 83, 69, 82>>, <<67, 87, 68>>, <<83, 84, 79, 82>>, <<80, 65, 83, 86>>}

\* a verb in every mix of upper and lower case
Cased(verb) ==
    {[i \in 1..Len(verb) |-> IF lower[i] THEN verb[i] + 32 ELSE verb[i]] :
        lower \in [1..Len(verb) -> BOOLEAN]}

\* what follows the verb in a probed packet: " c\r\n", "\r\n", " \r\n" and
\* nothing
DecodeTails == {<<32, 99>> \o CRLF, CRLF, <<32>> \o CRLF, <<>>}

\* a packet read from the control connection
InitDecode ==
    /\ number_of_tries_before_success = DefaultTries
    /\ max_concurrent_users = DefaultMaxConcurrentUsers
    /\ file_upload_real = FALSE
    /\ can_be_downloaded = FALSE
    /\ InitState
    /\ probe \in {[op |-> "decode", applied |-> FALSE, packet |-> t \o tail,
                   request |-> [ok |-> FALSE, command |-> "",
                                argument |-> <<>>]] :
                     t \in UNION {Cased(verb) : verb \in DecodeVerbs},
                     tail \in DecodeTails}

\* Decoder::decode(packet)
apply_decode ==
    /\ probe.op = "decode"
    /\ ~probe.applied
    /\ probe' = [probe EXCEPT !.applied = TRUE,
                              !.request = decode(probe.packet)]
    /\ UNCHANGED <<confvars, taskvars>>

NextDecode == apply_decode

SpecDecode == InitDecode /\ [][NextDecode]_vars

\* ------------------------------ the command loop on a stream that ends
\* the size of the frame buffer
PacketSize == 32

\* the buffer of an iteration in which read stored nothing: the peer has
\* closed the connection (read returns Ok(0)) or the read failed
Zeros == [i \in 1..PacketSize |-> 0]

\* the buffer after a read that stored the frame
Filled(frame) == frame \o [i \in 1..(PacketSize - Len(frame)) |-> 0]

\* the frames the peer of SpecEof sends: QUIT, NOOP, SYST, PWD, STAT, HELP,
\* ACCT and noop, each followed by "\r\n"
EofFrames ==
    {<<81, 85, 73, 84>> \o CRLF, <<78, 79, 79, 80>> \o CRLF,
     <<83, 89, 83, 84>> \o CRLF, <<80, 87, 68>> \o CRLF,
     <<83, 84, 65, 84>> \o CRLF, <<72, 69, 76, 80>> \o CRLF,
     <<65, 67, 67, 84>> \o CRLF, <<110, 111, 111, 112>> \o CRLF}

\* the peer is connected and has not closed its end
InitEof ==
    /\ number_of_tries_before_success = 1
    /\ max_concurrent_users = DefaultMaxConcurrentUsers
    /\ file_upload_real = FALSE
    /\ can_be_downloaded = FALSE
    /\ InitState
    /\ probe = [op |-> "eof", open |-> TRUE]

\* the peer closes the control connection
peer_close ==
    /\ probe.op = "eof"
    /\ probe.open
    /\ probe' = [probe EXCEPT !.open = FALSE]
    /\ UNCHANGED <<confvars, taskvars>>

\* the buffers an iteration of SpecEof can hold
EofPackets == {Zeros} \cup {Filled(frame) : frame \in EofFrames}

\* Decoder::decode on each of them
decoded == [packet \in EofPackets |-> decode(packet)]

\* the match on Decoder::decode: Err breaks out of the loop, Ok goes to the
\* arm of the verb
dispatch(c, packet, write_ok) ==
    LET request == decoded[packet]
    IN IF ~request.ok
       THEN decode_error(c)
       ELSE CASE request.command = "QUIT" -> quit(c, write_ok)
              [] request.command = "NOOP" -> noop(c, write_ok)
              [] request.command = "SYST" -> syst(c, write_ok)
              [] request.command = "PWD" -> pwd(c, write_ok)
              [] request.command = "STAT" -> stat(c, write_ok)
              [] request.command = "HELP" -> help(c, write_ok)
              [] request.command = "ACCT" -> acct(c, write_ok)
              [] OTHER -> not_supported(c, write_ok)

\* one iteration of the loop: a zeroed buffer, read_packet, which stores a
\* frame only while the peer is there and the read succeeds, and the match
iterate(c, frame, read_ok, write_ok) ==
    /\ probe.op = "eof"
    /\ sess[c].pc = "loop"
    /\ \E packet \in {IF probe.open /\ read_ok THEN Filled(frame) ELSE Zeros} :
          dispatch(c, packet, write_ok)

\* the iterations of the loop of connection c
Loop(c) ==
    \E frame \in EofFrames, read_ok \in BOOLEAN, write_ok \in BOOLEAN :
       iterate(c, frame, read_ok, write_ok)

NextEof ==
    \/ \E c \in LoginConns, ip \in SessionIPs : probe.open /\ accept(c, ip)
    \/ \E c \in LoginConns, write_ok \in BOOLEAN : check_users(c, write_ok)
    \/ \E c \in LoginConns, write_ok \in BOOLEAN : enter(c, write_ok)
    \/ \E c \in LoginConns : Loop(c)
    \/ peer_close

\* the task of a connection is scheduled again and again
SpecEof == InitEof /\ [][NextEof]_vars /\ \A c \in LoginConns : WF_vars(Loop(c))

\* ------------------------------------------------------------ claims
\* positions of the PASS commands of one address in the history
PassesOf(ip) == {i \in 1..Len(pass_log) : pass_log[i].ip = ip}

\* positions of the PASS commands the same address sent before position i
EarlierPasses(i) == {j \in 1..(i - 1) : pass_log[j].ip = pass_log[i].ip}

TriedPair(i) == <<pass_log[i].username, pass_log[i].password>>

\* position i is the first PASS of its address the policy admitted
FirstAdmission(i) ==
    /\ pass_log[i].admitted
    /\ \A j \in EarlierPasses(i) : ~pass_log[j].admitted

S1Pairs ==
    <<Pair("alice", "a"), Pair("bob", "b"), Pair("carol", "c"),
      Pair("carol", "c"), Pair("dave", "d")>>

\* the first k PASS commands handled are the first k of S1, from 1.2.3.4
S1Prefix(k) ==
    /\ Len(pass_log) >= k
    /\ \A i \in 1..k :
          /\ pass_log[i].ip = "1.2.3.4"
          /\ Pair(pass_log[i].username, pass_log[i].password) = S1Pairs[i]

\* the attacker row has accepted_credentials_id referencing the pair
BoundTo(row, pair) ==
    /\ is_some(row.credentials_id)
    /\ \E r \in credentials :
          /\ r.id = unwrap(row.credentials_id)
          /\ Pair(r.username, r.password) = pair

\* C2 as stated: S1 is answered 530, 530, 230, 230, 530 with login_count
\* 1..5, and the third PASS binds carol/c and creates the filesystem.
C2_ScenarioS1 ==
    number_of_tries_before_success = 3 =>
        \A k \in 1..5 :
            S1Prefix(k) =>
                /\ pass_log[k].reply =
                      Some(<<NotLoggedIn, NotLoggedIn, UserLoggedInProceed,
                             UserLoggedInProceed, NotLoggedIn>>[k])
                /\ is_some(pass_log[k].post)
                /\ unwrap(pass_log[k].post).login_count = k
                /\ k = 3 => /\ BoundTo(unwrap(pass_log[k].post), S1Pairs[3])
                            /\ is_some(unwrap(pass_log[k].post).file_system)

\* C2 amended: S1 is answered 530, 530, 530, 530, 230 with login_count 1..5;
\* nothing is bound and no filesystem exists before the fifth PASS, which binds
\* dave/d and creates the filesystem.
C2_ScenarioS1Amended ==
    number_of_tries_before_success = 3 =>
        \A k \in 1..5 :
            S1Prefix(k) =>
                /\ pass_log[k].reply =
                      Some(<<NotLoggedIn, NotLoggedIn, NotLoggedIn,
                             NotLoggedIn, UserLoggedInProceed>>[k])
                /\ is_some(pass_log[k].post)
                /\ unwrap(pass_log[k].post).login_count = k
                /\ k < 5 => /\ is_none(unwrap(pass_log[k].post).credentials_id)
                            /\ is_none(unwrap(pass_log[k].post).file_system)
                /\ k = 5 => /\ BoundTo(unwrap(pass_log[k].post), S1Pairs[5])
                            /\ is_some(unwrap(pass_log[k].post).file_system)

\* all five PASS commands of S1 were handled
C2_Witness ==
    /\ number_of_tries_before_success = 3
    /\ S1Prefix(5)
    /\ pass_log[5].admitted

\* the PASS at position i created the filesystem of its attacker
CreatedFs(i) ==
    /\ is_some(pass_log[i].post)
    /\ is_some(unwrap(pass_log[i].post).file_system)
    /\ \/ is_none(pass_log[i].pre)
       \/ is_none(unwrap(pass_log[i].pre).file_system)

\* the PASS at position i bound accepted_credentials_id for the first time
FirstBinding(i) ==
    /\ is_some(pass_log[i].post)
    /\ is_some(unwrap(pass_log[i].post).credentials_id)
    /\ \/ is_none(pass_log[i].pre)
       \/ is_none(unwrap(pass_log[i].pre).credentials_id)

\* the PASS at position i ran the check-and-possibly-admit path
OnCheckPath(i) ==
    /\ is_some(pass_log[i].pre)
    /\ LET pre == unwrap(pass_log[i].pre)
       IN \/ pre.login_count = number_of_tries_before_success
          \/ /\ pre.login_count > number_of_tries_before_success
             /\ is_none(pre.credentials_id)

\* C3: the filesystem is absent until the first admission, is created by the
\* PASS that first binds accepted_credentials_id (on the check path, with a
\* pair not tried before) and by no other PASS, and the decoy set of an
\* attacker is generated exactly once.
C3_FilesystemCreatedOnce ==
    /\ \A a \in attackers :
          /\ is_some(a.file_system) <=> is_some(a.credentials_id)
          /\ generated_files[a.id] = (IF is_some(a.file_system) THEN 1 ELSE 0)
          /\ is_some(a.file_system) =>
                \E i \in PassesOf(a.ip) : pass_log[i].admitted
    /\ \A id \in AttackerIds :
          (\A a \in attackers : a.id # id) => generated_files[id] = 0
    /\ \A i \in 1..Len(pass_log) :
          /\ CreatedFs(i) <=> FirstBinding(i)
          /\ CreatedFs(i) =>
                /\ OnCheckPath(i)
                /\ ~pass_log[i].linked
                /\ pass_log[i].admitted
          /\ (is_some(pass_log[i].pre)
                /\ is_some(unwrap(pass_log[i].pre).file_system)) =>
                /\ is_some(unwrap(pass_log[i].post).file_system)
                /\ unwrap(unwrap(pass_log[i].post).file_system).root
                      = unwrap(unwrap(pass_log[i].pre).file_system).root

\* the filesystem was created past the threshold and a later PASS of the same
\* address found the credentials bound
C3_Witness ==
    \E i \in 1..Len(pass_log) :
        /\ CreatedFs(i)
        /\ unwrap(pass_log[i].pre).login_count > number_of_tries_before_success
        /\ \E j \in (i + 1)..Len(pass_log) :
              /\ pass_log[j].ip = pass_log[i].ip
              /\ is_some(unwrap(pass_log[j].pre).credentials_id)
              /\ generated_files[unwrap(pass_log[j].post).id] = 1

\* the PASS at position i found login_count > T and credentials bound
OnBoundPath(i) ==
    /\ is_some(pass_log[i].pre)
    /\ unwrap(pass_log[i].pre).login_count > number_of_tries_before_success
    /\ is_some(unwrap(pass_log[i].pre).credentials_id)

\* the Credentials row bound to the attacker before the PASS at position i
BoundRow(i) ==
    CHOOSE r \in credentials : r.id = unwrap(unwrap(pass_log[i].pre).credentials_id)

\* C4: past the threshold with credentials bound, a PASS is admitted iff its
\* (username, password) equals the bound pair; either way login_count grows by
\* one and the binding stays.
C4_BoundCredentialsDecide ==
    \A i \in 1..Len(pass_log) :
        OnBoundPath(i) =>
            /\ ~pass_log[i].panicked
            /\ pass_log[i].admitted <=>
                  /\ pass_log[i].username = BoundRow(i).username
                  /\ pass_log[i].password = BoundRow(i).password
            /\ pass_log[i].reply =
                  Some(IF pass_log[i].admitted THEN UserLoggedInProceed ELSE NotLoggedIn)
            /\ unwrap(pass_log[i].post).login_count
                  = unwrap(pass_log[i].pre).login_count + 1
            /\ unwrap(pass_log[i].post).credentials_id
                  = unwrap(pass_log[i].pre).credentials_id

\* with credentials bound, one PASS was admitted and another, with the bound
\* user name and a different password, was denied
C4_Witness ==
    \E i, j \in 1..Len(pass_log) :
        /\ OnBoundPath(i)
        /\ pass_log[i].admitted
        /\ OnBoundPath(j)
        /\ ~pass_log[j].admitted
        /\ pass_log[j].username = BoundRow(j).username

\* the PASS at position i found the address unknown or login_count < T
BelowThreshold(i) ==
    \/ is_none(pass_log[i].pre)
    \/ unwrap(pass_log[i].pre).login_count < number_of_tries_before_success

\* C5 as stated: a PASS from an unknown address or below the threshold returns
\* not admitted (530) whatever the pair, a tried one included, and leaves
\* accepted_credentials_id and file_system unset.
C5_BelowThresholdDenied ==
    \A i \in 1..Len(pass_log) :
        BelowThreshold(i) =>
            /\ ~pass_log[i].admitted
            /\ ~pass_log[i].panicked
            /\ pass_log[i].reply = Some(NotLoggedIn)
            /\ is_none(unwrap(pass_log[i].post).credentials_id)
            /\ is_none(unwrap(pass_log[i].post).file_system)

\* C6: on the check path a pair whose link row exists is denied: login_count
\* grows by one, nothing is bound, no filesystem is created.
C6_TriedPairDenied ==
    \A i \in 1..Len(pass_log) :
        (OnCheckPath(i) /\ pass_log[i].linked) =>
            /\ ~pass_log[i].admitted
            /\ ~pass_log[i].panicked
            /\ pass_log[i].reply = Some(NotLoggedIn)
            /\ unwrap(pass_log[i].post).login_count
                  = unwrap(pass_log[i].pre).login_count + 1
            /\ is_none(unwrap(pass_log[i].post).credentials_id)
            /\ is_none(unwrap(pass_log[i].post).file_system)
            /\ ~CreatedFs(i)

\* a tried pair was presented at login_count = T and again at login_count > T
C6_Witness ==
    \E i, j \in 1..Len(pass_log) :
        /\ OnCheckPath(i) /\ pass_log[i].linked
        /\ unwrap(pass_log[i].pre).login_count = number_of_tries_before_success
        /\ OnCheckPath(j) /\ pass_log[j].linked
        /\ unwrap(pass_log[j].pre).login_count > number_of_tries_before_success

\* C7: the stored login_count of an address is the number of PASS commands
\* handled for it: the first creates the row with 1, each later one adds 1
\* through whatever branch, and nothing else changes it.
C7_LoginCountCountsPasses ==
    /\ \A ip \in IPs :
          /\ Cardinality({a \in attackers : a.ip = ip}) <= 1
          /\ IF PassesOf(ip) = {}
             THEN is_none(get_attacker_by_ip(attackers, ip))
             ELSE /\ is_some(get_attacker_by_ip(attackers, ip))
                  /\ unwrap(get_attacker_by_ip(attackers, ip)).login_count
                        = Cardinality(PassesOf(ip))
    /\ \A i \in 1..Len(pass_log) :
          /\ is_some(pass_log[i].post)
          /\ unwrap(pass_log[i].post).login_count
                = (IF is_none(pass_log[i].pre)
                   THEN 1
                   ELSE unwrap(pass_log[i].pre).login_count + 1)

\* an address sent PASS through a panicking, a denied and an admitted branch,
\* and MKD wrote the filesystem back after the admission
C7_Witness ==
    \E ip \in IPs :
        /\ Cardinality(PassesOf(ip)) >= 3
        /\ \E i \in PassesOf(ip) : pass_log[i].panicked
        /\ \E i \in PassesOf(ip) : pass_log[i].admitted
        /\ \E c \in Conns :
              /\ sess[c].pc = "loop"
              /\ sess[c].ip = ip
              /\ is_some(sess[c].model)
              /\ sess[c].reply = Some(PathnameAvailable)
              /\ "upload" \in DOMAIN unwrap(unwrap(get_attacker_by_ip(
                                      attackers, ip)).file_system).root.dirs

\* the id of the Credentials row of the pair sent at position i
CredentialsIdOf(i) ==
    unwrap(get_credentials_by_username_and_password(
               credentials, pass_log[i].username, pass_log[i].password)).id

\* C8 as stated: at most one link row per (attacker_id, credentials_id),
\* exactly one for every pair presented while unknown or below the threshold,
\* and presenting a linked pair again does not fail the request.
C8_LinkRowsUniqueRetryHarmless ==
    /\ \A i, j \in 1..Len(attacker_to_credentials) :
          attacker_to_credentials[i] = attacker_to_credentials[j] => i = j
    /\ \A k \in 1..Len(pass_log) :
          BelowThreshold(k) =>
              Cardinality({i \in 1..Len(attacker_to_credentials) :
                  attacker_to_credentials[i] =
                      [attacker_id |-> unwrap(pass_log[k].post).id,
                       credentials_id |-> CredentialsIdOf(k)]}) = 1
    /\ \A k \in 1..Len(pass_log) :
          pass_log[k].linked => ~pass_log[k].panicked

\* C9 as stated: with T=3 the first three PASS x/x of the fresh address
\* 2.2.2.2 are each answered 530, login_count reaching 3 with nothing bound.
C9_ScenarioS2 ==
    number_of_tries_before_success = 3 =>
        \A i \in PassesOf("2.2.2.2") :
            (/\ Pair(pass_log[i].username, pass_log[i].password) = Pair("x", "x")
             /\ Cardinality(EarlierPasses(i)) < 3) =>
                /\ pass_log[i].reply = Some(NotLoggedIn)
                /\ unwrap(pass_log[i].post).login_count
                      = Cardinality(EarlierPasses(i)) + 1
                /\ is_none(unwrap(pass_log[i].post).credentials_id)

\* the connection tasks that incremented the counter and have not exited
LiveSessions == {c \in Conns : sess[c].pc = "loop"}

\* C10 as stated: the number of sessions past the admission check never
\* exceeds max_concurrent_users.
C10_SessionsWithinCap ==
    Cardinality(LiveSessions) <= max_concurrent_users

\* C11 as stated: the counter is decremented once for every session that
\* incremented it, on every exit path, so it always equals the number of live
\* sessions and is 0 when none remain.
C11_CounterCountsLiveSessions ==
    current_users = Cardinality(LiveSessions)
\* the argument is one or more ".." components and nothing else
OnlyParents(arg) ==
    \E n \in 1..(MaxComponents + 1) : arg = join_path([i \in 1..n |-> ".."])

\* C18: a ".." component pops one component of the path resolved so far and is
\* a no-op at the root: cd "a/../b" ends where cd "b" ends whenever both
\* succeed, cd ".." ends at the parent of the working directory, and a cd of
\* ".." components only, from the root, succeeds and stays at the root.
C18_ParentPopsOneNoOpAtRoot ==
    (probe.op = "cd" /\ probe.applied) =>
        /\ \A a, b \in Names :
              LET direct == cd_as_str(probe.from, <<b>>)
              IN (probe.arg = <<a, "/", "..", "/", b>> /\ probe.ok /\ direct.ok)
                    => probe.fs.path = direct.fs.path
        /\ probe.arg = <<"..">> =>
              /\ probe.ok
              /\ Len(probe.fs.path) = (IF probe.from.path = <<>>
                                       THEN 0
                                       ELSE Len(probe.from.path) - 1)
              /\ \A i \in 1..Len(probe.fs.path) :
                    probe.fs.path[i] = probe.from.path[i]
        /\ (probe.from.path = <<>> /\ OnlyParents(probe.arg)) =>
              (probe.ok /\ probe.fs.path = <<>>)

\* cd "../.." was applied at the root
C18_Witness ==
    /\ probe.op = "cd"
    /\ probe.applied
    /\ probe.from.path = <<>>
    /\ probe.arg = <<"..", "/", "..">>
    /\ probe.ok
    /\ probe.fs.path = <<>>

\* C19 as stated: a "." component is a no-op wherever it occurs: whenever the
\* argument without its "." components resolves, the argument itself resolves
\* to the same path, for cd and for resolve_path alike.
C19_DotIsNoOpEverywhere ==
    (probe.op = "cd" /\ probe.applied) =>
        LET without == SelectSeq(split_terminator(probe.arg), LAMBDA x : x # ".")
            plain == real_cd(probe.from, without)
        IN plain.ok =>
              /\ probe.ok
              /\ probe.fs.path = plain.fs.path
              /\ probe.resolved = resolve_path_as_vec(probe.from, without)

\* name a comes before name b in the lexicographic order of their bytes
Precedes(a, b) ==
    \E k \in 1..Len(bytes(b)) :
        /\ k <= Len(bytes(a)) + 1
        /\ \A i \in 1..(k - 1) : bytes(a)[i] = bytes(b)[i]
        /\ k <= Len(bytes(a)) => bytes(a)[k] < bytes(b)[k]

\* the names of s in lexicographic order: position k holds the name that has
\* fewer than k names before it and at least k names not after it
InOrder(s) ==
    [k \in 1..Len(s) |->
        CHOOSE x \in {s[i] : i \in 1..Len(s)} :
            /\ Cardinality({i \in 1..Len(s) : Precedes(s[i], x)}) < k
            /\ k <= Cardinality({i \in 1..Len(s) : s[i] = x \/ Precedes(s[i], x)})]

\* the names of s joined by CRLF
RECURSIVE JoinCRLF(_)
JoinCRLF(s) ==
    IF s = <<>> THEN <<>>
    ELSE IF Len(s) = 1 THEN bytes(s[1])
    ELSE bytes(s[1]) \o <<13, 10>> \o JoinCRLF(Tail(s))

\* the names of the child directories of a node, in some order
DirNames(node) == CHOOSE o \in Orders(DOMAIN node.dirs) : TRUE

\* the names of the files of a node, as stored
FileNames(node) == [i \in 1..Len(node.files) |-> node.files[i].name]

\* C20: ls returns the names of the child directories in lexicographic order,
\* then the names of the files in lexicographic order, joined by CRLF with no
\* separator before the first or after the last name, and the empty string for
\* an empty directory, whatever order the entries were inserted in.
C20_LsSortedDirsThenFiles ==
    (probe.op = "ls" /\ is_some(probe.out)) =>
        /\ unwrap(probe.out) =
              JoinCRLF(InOrder(DirNames(probe.listed))
                          \o InOrder(FileNames(probe.listed)))
        /\ (probe.listed.dirs = NoDirs /\ probe.listed.files = <<>>)
              => unwrap(probe.out) = <<>>

\* a directory ab and the files b and a, pushed in that order, were listed as
\* "ab\r\na\r\nb"
C20_Witness ==
    /\ probe.op = "ls"
    /\ DOMAIN probe.listed.dirs = {"ab"}
    /\ FileNames(probe.listed) = <<"b", "a">>
    /\ probe.out = Some(<<97, 98, 13, 10, 97, 13, 10, 98>>)

\* the verbs C12 lists
ProtectedVerbs ==
    {"SYST", "TYPE", "MODE", "STRU", "NOOP", "PORT", "CWD", "PWD", "LIST",
     "STOR", "RETR", "MKD", "RMD", "DELE"}

\* one of these verbs is handled on connection c, with any input of SpecVerbs
\* (the verb the step leaves behind is looked at first, to spare the rest)
ProtectedVerbStep(c) ==
    /\ sess'[c].verb \in ProtectedVerbs
    /\ \/ \E w \in BOOLEAN : syst(c, w)
       \/ \E w \in BOOLEAN : fn_type(c, w)
       \/ \E w \in BOOLEAN, argument \in ModeArgs : mode(c, argument, w)
       \/ \E w \in BOOLEAN, argument \in StruArgs : stru(c, argument, w)
       \/ \E w \in BOOLEAN : noop(c, w)
       \/ \E w \in BOOLEAN, o \in BOOLEAN, nums \in PortArgs : port(c, nums, o, w)
       \/ \E w \in BOOLEAN, argument \in MissingDir : cwd(c, argument, w)
       \/ \E w \in BOOLEAN : pwd(c, w)
       \/ \E fault \in Faults, argument \in ListArgs : list(c, argument, fault)
       \/ \E fault \in Faults, argument \in UnderMissingDir, body \in VerbsBodies :
             stor(c, argument, body, fault)
       \/ \E fault \in Faults, argument \in MissingFile : retr(c, argument, fault)
       \/ \E w \in BOOLEAN, new_dir \in UnderMissingDir : mkd(c, new_dir, w)
       \/ \E w \in BOOLEAN, dir_to_delete \in MissingDir : rmd(c, dir_to_delete, w)
       \/ \E w \in BOOLEAN, file_to_delete \in MissingFile : dele(c, file_to_delete, w)

\* C12: in a session with no bound attacker each of these verbs is answered
\* with 530 and the session stays in the command loop (it ends only when the
\* write of the 530 fails); no data-channel target is staged, no data
\* connection is opened, and the database, the disk and the filesystems
\* stored in it are unchanged.
C12_UnauthenticatedVerbsDenied ==
    [][\A c \in LoginConns :
          (sess[c].pc = "loop" /\ is_none(sess[c].model) /\ ProtectedVerbStep(c)) =>
             /\ \/ /\ sess'[c].pc = "loop"
                   /\ sess'[c].reply = Some(NotLoggedIn)
                   /\ sess'[c].data_socket = sess[c].data_socket
                   /\ sess'[c].data_addr = sess[c].data_addr
                \/ /\ sess'[c].pc = "closed"
                   /\ sess'[c].exit = "write"
                   /\ sess'[c].reply = sess[c].reply
             /\ is_none(sess'[c].model)
             /\ ~sess'[c].connected
             /\ UNCHANGED <<dbvars, cfgvars>>]_vars

\* PORT was answered 530 in a session that a denied PASS left without a bound
\* attacker, and nothing is staged
C12_Witness ==
    /\ sess[1].pc = "loop"
    /\ is_none(sess[1].model)
    /\ sess[1].verb = "PORT"
    /\ sess[1].reply = Some(NotLoggedIn)
    /\ ~sess[1].data_socket
    /\ is_none(sess[1].data_addr)
    /\ pass_log # <<>>

\* C13 as stated: CDUP, ALLO and STAT require a login: in a session with no
\* bound attacker the reply to each of them is 530.
C13_CdupAlloStatRequireLogin ==
    \A c \in LoginConns :
        (/\ sess[c].pc = "loop"
         /\ is_none(sess[c].model)
         /\ sess[c].verb \in {"CDUP", "ALLO", "STAT"})
            => sess[c].reply = Some(NotLoggedIn)

\* C15 as stated: the command loop ends only on QUIT, after the reply 221, on
\* a frame that does not decode, without a reply, or on a failed write on the
\* control channel; an unknown verb is answered 502 and keeps the session in
\* the loop.
C15_LoopEndsOnlyOnQuitDecodeWrite ==
    \A c \in LoginConns :
        /\ (sess[c].pc = "closed" /\ sess[c].exit \notin {"", "full", "banner"})
              => sess[c].exit \in {"quit", "decode", "write"}
        /\ (sess[c].pc = "closed" /\ sess[c].exit = "quit")
              => sess[c].reply = Some(UserSuccessfulLogout)
        /\ (sess[c].pc = "loop" /\ sess[c].verb = "NOT_SUPPORTED")
              => sess[c].reply = Some(CommandNotImplemented)

\* C16 as stated: after a data-channel failure in LIST, STOR or RETR the
\* session is still in the command loop and the attacker is still bound: the
\* task of a session never ends in one of these handlers other than by a
\* failed write on the control channel.
C16_DataChannelFailureKeepsSession ==
    \A c \in LoginConns :
        (sess[c].pc = "closed" /\ sess[c].verb \in {"LIST", "STOR", "RETR"})
            => sess[c].exit = "write"

\* the attacker row the database holds for the peer of a session
PersistedRow(c) == get_attacker_by_ip(attackers, sess[c].ip)

\* the session has just been admitted by PASS
JustAdmitted(c) ==
    sess[c].pc = "loop" /\ sess[c].verb = "PASS" /\ is_some(sess[c].model)

\* C14: an admitted PASS is answered 230 and leaves the working path empty
\* in the session and in the persisted attacker row, whatever path the row
\* held before, and a PWD sent right after it reports "/" with 257; a denied
\* PASS is answered 530.
C14_AdmittedPassResetsPath ==
    /\ [](\A c \in LoginConns :
            /\ JustAdmitted(c) =>
                  /\ sess[c].reply = Some(UserLoggedInProceed)
                  /\ unwrap(unwrap(sess[c].model).file_system).path = <<>>
                  /\ is_some(PersistedRow(c))
                  /\ unwrap(PersistedRow(c)).file_system
                        = unwrap(sess[c].model).file_system
            /\ (sess[c].pc = "loop" /\ sess[c].verb = "PASS"
                   /\ is_none(sess[c].model))
                  => sess[c].reply = Some(NotLoggedIn))
    /\ [](\A i \in 1..Len(pass_log) :
            ~pass_log[i].panicked =>
                pass_log[i].reply = IF pass_log[i].admitted
                                    THEN Some(UserLoggedInProceed)
                                    ELSE Some(NotLoggedIn))
    /\ [][\A c \in LoginConns :
            (JustAdmitted(c) /\ pwd(c, TRUE)) =>
                /\ sess'[c].reply = Some(PathnameAvailable)
                /\ sess'[c].msg = Some(<<"/">>)]_vars

\* a PWD answered "/" in a session whose PASS found a row with a working
\* path below the root
C14_Witness ==
    /\ sess[1].pc = "loop"
    /\ sess[1].verb = "PWD"
    /\ sess[1].reply = Some(PathnameAvailable)
    /\ sess[1].msg = Some(<<"/">>)
    /\ pass_log # <<>>
    /\ LET last == pass_log[Len(pass_log)]
       IN /\ last.admitted
          /\ is_some(last.pre)
          /\ is_some(unwrap(last.pre).file_system)
          /\ unwrap(unwrap(last.pre).file_system).path # <<>>

\* the filesystem a logged-in session holds
SessionFs(c) == unwrap(unwrap(sess[c].model).file_system)

LoggedIn(c) == sess[c].pc = "loop" /\ is_some(sess[c].model)

\* the directory the components before the last one name, when they resolve
ParentNode(file_system, file_name_and_path) ==
    traverse_path(file_system.root,
                  unwrap(ParentOf(file_system, file_name_and_path))).node

\* the precondition violations of the four verbs, as facts about the tree
CwdMissing(file_system, argument) == is_none(resolve_path(file_system, argument))

MkdRefused(file_system, new_dir) ==
    \/ is_none(ParentOf(file_system, new_dir))
    \/ LastComponent(new_dir) \in DOMAIN ParentNode(file_system, new_dir).dirs

RmdRefused(file_system, dir_to_delete) ==
    \/ is_none(ParentOf(file_system, dir_to_delete))
    \/ LastComponent(dir_to_delete) \notin DOMAIN ParentNode(file_system, dir_to_delete).dirs
    \/ LET directory == ParentNode(file_system, dir_to_delete).dirs[LastComponent(dir_to_delete)]
       IN directory.files # <<>> \/ DOMAIN directory.dirs # {}

DeleRefused(file_system, file_to_delete) ==
    \/ is_none(ParentOf(file_system, file_to_delete))
    \/ \A i \in 1..Len(ParentNode(file_system, file_to_delete).files) :
          ParentNode(file_system, file_to_delete).files[i].name
              # LastComponent(file_to_delete)

\* the refusal: 550 and the session as it was, or the end of the session when
\* the reply cannot be written; the database is left alone in both cases
Refused(c, write_ok) ==
    /\ IF write_ok
       THEN /\ sess'[c].pc = "loop"
            /\ sess'[c].reply = Some(DirectoryCreationFailed)
            /\ sess'[c].model = sess[c].model
       ELSE /\ sess'[c].pc = "closed"
            /\ sess'[c].exit = "write"
    /\ UNCHANGED dbvars

\* C17: CWD to a directory that does not resolve, MKD of an existing child
\* name or under a parent that does not resolve, RMD of a missing or not empty
\* directory and DELE of an absent file are answered 550; the session stays
\* in the command loop, and its tree, its working path and the database
\* (the persisted attacker row included) are unchanged.
C17_PreconditionViolationRefused ==
    [][\A c \in LoginConns, write_ok \in BOOLEAN :
          LoggedIn(c) =>
             /\ \A argument \in CwdArgs :
                   (CwdMissing(SessionFs(c), argument) /\ cwd(c, argument, write_ok))
                      => Refused(c, write_ok)
             /\ \A new_dir \in MkdArgs :
                   (MkdRefused(SessionFs(c), new_dir) /\ mkd(c, new_dir, write_ok))
                      => Refused(c, write_ok)
             /\ \A dir_to_delete \in RmdArgs :
                   (RmdRefused(SessionFs(c), dir_to_delete)
                       /\ rmd(c, dir_to_delete, write_ok))
                      => Refused(c, write_ok)
             /\ \A file_to_delete \in DeleArgs :
                   (DeleRefused(SessionFs(c), file_to_delete)
                       /\ dele(c, file_to_delete, write_ok))
                      => Refused(c, write_ok)]_vars

\* a logged-in session whose RMD was answered 550 while /documents, which is
\* not empty, and the created /upload are both still in its tree and in the
\* persisted row
C17_Witness ==
    /\ LoggedIn(1)
    /\ sess[1].verb = "RMD"
    /\ sess[1].reply = Some(DirectoryCreationFailed)
    /\ {"documents", "upload"} \subseteq DOMAIN SessionFs(1).root.dirs
    /\ SessionFs(1).path = <<"documents">>
    /\ unwrap(PersistedRow(1)).file_system = Some(SessionFs(1))

\* every directory of a tree with its path from the root and its file list
RECURSIVE DirTable(_)
DirTable(node) ==
    {[path |-> <<>>, files |-> node.files]}
       \cup UNION {{[path |-> <<n>> \o e.path, files |-> e.files] :
                       e \in DirTable(node.dirs[n])} : n \in DOMAIN node.dirs}

\* the directory of the table at path has no file and no directory below it
EmptyIn(table, e) ==
    /\ e.files = <<>>
    /\ \A o \in table :
          o # e => ~(Len(o.path) > Len(e.path)
                       /\ SubSeq(o.path, 1, Len(e.path)) = e.path)

\* C21: an RMD of a logged-in session either removes exactly one directory
\* that exists and has no directory and no file, and is then answered 250, or
\* leaves the tree as it is and is not answered 250: no file and no directory
\* that is not empty is ever removed by RMD.
C21_RmdRemovesOnlyEmptyDirs ==
    [][\A c \in LoginConns, write_ok \in BOOLEAN, dir_to_delete \in RmdArgs :
          (LoggedIn(c) /\ rmd(c, dir_to_delete, write_ok)) =>
             LET before == DirTable(SessionFs(c).root)
                 saved == DirTable(unwrap(unwrap(
                              get_attacker_by_ip(attackers', sess[c].ip)).file_system).root)
             IN IF RmdRefused(SessionFs(c), dir_to_delete)
                THEN /\ UNCHANGED dbvars
                     /\ write_ok => /\ sess'[c].model = sess[c].model
                                    /\ sess'[c].reply = Some(DirectoryCreationFailed)
                ELSE /\ \E e \in before :
                           /\ e.path # <<>>
                           /\ EmptyIn(before, e)
                           /\ saved = before \ {e}
                           /\ write_ok => DirTable(SessionFs(c).root)' = before \ {e}
                     /\ write_ok => sess'[c].reply = Some(RequestedFileActionOkayCompleted)]_vars

\* a session whose RMD was answered 250: /upload is gone, the directories
\* with files are all there
C21_Witness ==
    /\ LoggedIn(1)
    /\ sess[1].verb = "RMD"
    /\ sess[1].reply = Some(RequestedFileActionOkayCompleted)
    /\ "upload" \notin DOMAIN SessionFs(1).root.dirs
    /\ {"documents", "pictures"} \subseteq DOMAIN SessionFs(1).root.dirs
    /\ \E i \in 1..Len(pass_log) : is_some(pass_log[i].post)
          /\ is_some(unwrap(pass_log[i].post).file_system)

\* C22 as stated: in a logged-in session every component of the working path
\* names an existing child directory, so the walk of traverse_path along the
\* path leaves no component over.
C22_WorkingPathResolves ==
    \A c \in LoginConns :
        LoggedIn(c) =>
            traverse_path(SessionFs(c).root, SessionFs(c).path).path = <<>>

\* C23 as stated: in every directory of the tree of a logged-in session no
\* two entries of the file list have the same name (the child directories are
\* the keys of a map and cannot share a name).
C23_NamesUniqueInDirectory ==
    \A c \in LoginConns :
        LoggedIn(c) =>
            \A e \in DirTable(SessionFs(c).root) :
                \A i, j \in 1..Len(e.files) :
                    e.files[i].name = e.files[j].name => i = j

\* the bytes of a name occur in a listing
Lists(out, name) ==
    \E k \in 1..Len(out) :
        /\ k + Len(bytes(name)) - 1 <= Len(out)
        /\ SubSeq(out, k, k + Len(bytes(name)) - 1) = bytes(name)

\* the components before the last one name a directory that exists
DirectoryResolves(file_system, file_name_and_path) ==
    /\ ~NoLastComponent(file_name_and_path)
    /\ is_some(ParentOf(file_system, file_name_and_path))
    /\ traverse_path(file_system.root,
                     unwrap(ParentOf(file_system, file_name_and_path))).path = <<>>

\* the directory at path p of the tree a row of the attackers table stores
StoredNode(row, p) == traverse_path(unwrap(row.file_system).root, p).node

\* C24: a STOR of body over a data connection that opens, into a directory p
\* that resolves, with name n, inserts
\* one UploadedFiles row with a new id, the size and the SHA-256 hash of the
\* body, and a location exactly when uploads are kept; the file list of p gets
\* one more entry, named n and carrying the id of the row, the listing of p
\* contains n, and the size of p has grown by the size of the body.
C24_StorRecordsUpload ==
    [][\A c \in LoginConns, argument \in StoreArgs, body \in Bodies,
         fault \in StoreFaults :
          (/\ LoggedIn(c)
           /\ DataChannelOpens(sess[c], fault)
           /\ DirectoryResolves(SessionFs(c), argument)
           /\ stor(c, argument, body, fault)) =>
             LET p == unwrap(ParentOf(SessionFs(c), argument))
                 n == LastComponent(argument)
                 before == traverse_path(SessionFs(c).root, p).node
                 row == unwrap(get_attacker_by_ip(attackers', sess[c].ip))
                 after == StoredNode(row, p)
                 file == uploaded_files'[Len(uploaded_files')]
             IN /\ Len(uploaded_files') = Len(uploaded_files) + 1
                /\ SubSeq(uploaded_files', 1, Len(uploaded_files)) = uploaded_files
                /\ \A i \in 1..Len(uploaded_files) : uploaded_files[i].id # file.id
                /\ file.filename = n
                /\ file.size = Len(body)
                /\ file.hash = Some(sha256(body))
                /\ file.attacker_id = Some(row.id)
                /\ is_some(file.location) <=> file_upload_real
                /\ is_some(file.location) => unwrap(file.location) \in disk'
                /\ after.files = Append(before.files,
                                        [name |-> n, size |-> Len(body),
                                         file_id |-> Some(file.id),
                                         default_file |-> None])
                /\ Lists(ls(after, DirNames(after)).out, n)
                /\ after.size = before.size + Len(body)
                /\ after.dirs = before.dirs
                /\ fault = "none" =>
                      /\ sess'[c].reply = Some(ClosingDataConnection)
                      /\ unwrap(sess'[c].model).file_system = row.file_system]_vars

\* a session answered 226 for a STOR of two bytes as loot into /upload while
\* uploads are kept: the row and the entry are there
C24_Witness ==
    /\ LoggedIn(1)
    /\ sess[1].verb = "STOR"
    /\ sess[1].reply = Some(ClosingDataConnection)
    /\ file_upload_real
    /\ SessionFs(1).path = <<"upload">>
    /\ "upload" \in DOMAIN SessionFs(1).root.dirs
    /\ uploaded_files # <<>>
    /\ LET file == uploaded_files[Len(uploaded_files)]
           files == SessionFs(1).root.dirs["upload"].files
       IN /\ file.size = 2
          /\ is_some(file.location)
          /\ files # <<>>
          /\ files[Len(files)].file_id = Some(file.id)

\* the reply each of the four mutating verbs reports success with
SuccessReply(verb) ==
    CASE verb = "MKD" -> Some(PathnameAvailable)
      [] verb = "RMD" -> Some(RequestedFileActionOkayCompleted)
      [] verb = "DELE" -> Some(RequestedFileActionOkayCompleted)
      [] verb = "STOR" -> Some(ClosingDataConnection)
      [] OTHER -> None

\* C25 as stated: when the last command of a logged-in session was an MKD,
\* RMD, DELE or STOR that reported success, the filesystem of the attacker's
\* row equals the filesystem of the session, tree and working path.
C25_SuccessfulMutationIsPersisted ==
    \A c \in LoginConns :
        (/\ LoggedIn(c)
         /\ sess[c].verb \in {"MKD", "RMD", "DELE", "STOR"}
         /\ sess[c].reply = SuccessReply(sess[c].verb))
            => /\ is_some(PersistedRow(c))
               /\ unwrap(PersistedRow(c)).file_system = Some(SessionFs(c))

\* the files on disk that STOR created: the ones with a random name
StoredOnDisk ==
    {f \in disk : \E n \in 1..6 : f[3] = <<random_filename(n)>>}

\* C30 as stated: when a STOR has been answered 226, every file STOR created
\* on disk is the location of an UploadedFiles row when uploads are kept, and
\* no such file is left when uploads are not kept, whatever the argument was.
C30_StoredFileReferencedOrDeleted ==
    \A c \in LoginConns :
        (/\ LoggedIn(c)
         /\ sess[c].verb = "STOR"
         /\ sess[c].reply = Some(ClosingDataConnection))
            => IF file_upload_real
               THEN \A f \in StoredOnDisk :
                       \E i \in 1..Len(uploaded_files) :
                           uploaded_files[i].location = Some(f)
               ELSE StoredOnDisk = {}

\* the rows of a table of UploadedFiles that belong to one of the attackers ids
FilesOf(files, ids) ==
    SelectSeq(files, LAMBDA f : is_some(f.attacker_id) /\ unwrap(f.attacker_id) \in ids)

\* C26 as stated: the purge of a tick deletes every attacker that was not
\* updated for 7 days with all link rows and UploadedFiles rows that reference
\* it, removes the files at the locations of those rows when uploads are
\* kept, and leaves the other attackers, their rows and their files alone.
C26_StalePurge ==
    [][tick_clean_up =>
          LET stale == probe.stale
              fresh == {a.id : a \in attackers} \ stale
          IN /\ \A a \in attackers' : a.id \notin stale
             /\ \A k \in 1..Len(attacker_to_credentials') :
                   attacker_to_credentials'[k].attacker_id \notin stale
             /\ FilesOf(uploaded_files', stale) = <<>>
             /\ file_upload_real =>
                   Locations(FilesOf(uploaded_files, stale)) \cap disk' = {}
             /\ {a \in attackers' : a.id \in fresh} = {a \in attackers : a.id \in fresh}
             /\ FilesOf(uploaded_files', fresh) = FilesOf(uploaded_files, fresh)
             /\ disk \ Locations(FilesOf(uploaded_files, stale)) \subseteq disk']_vars

\* the number of rows a pass that received these responses has processed:
\* all the responses but a closing 429
Processed(responses) ==
    IF responses # <<>> /\ responses[Len(responses)] = 429
    THEN Len(responses) - 1
    ELSE Len(responses)

\* C27: in a pass in which every request is answered, the rows without a
\* result are processed in order: 200 stores "{result_url}/{hash}/details",
\* every other status but 429 stores "Hash not found on VT.", and the first
\* 429 ends the pass: the row it was sent for and the rows after it keep no
\* result and get no file event, and they are the rows of the next pass.
C27_EnrichmentPass ==
    [][(/\ probe.op = "queue"
        /\ probe.pc = "tick"
        /\ probe'.pc # "tick"
        /\ \A k \in 1..Len(probe'.responses) : probe'.responses[k] # NoResponse) =>
          LET todo == get_files_by_missing_virus_total(Db)
              responses == probe'.responses
              done == Processed(responses)
          IN /\ probe'.pc = "clean"
             /\ done = Len(todo) \/ responses[done + 1] = 429
             /\ Len(uploaded_files') = Len(uploaded_files)
             /\ \A k \in 1..done :
                   uploaded_files'[todo[k]] =
                      [uploaded_files[todo[k]] EXCEPT !.virustotal_result =
                          IF responses[k] = 200
                          THEN Some(vt_link(unwrap(uploaded_files[todo[k]].hash)))
                          ELSE Some(VtResultNegative)]
             /\ \A i \in 1..Len(uploaded_files) :
                   (\A k \in 1..done : todo[k] # i)
                      => uploaded_files'[i] = uploaded_files[i]
             /\ Len(probe'.events) = Len(probe.events) + done
             /\ SubSeq(probe'.events, 1, Len(probe.events)) = probe.events
             /\ \A k \in 1..done :
                   LET event == probe'.events[Len(probe.events) + k]
                   IN /\ event.file_id = uploaded_files[todo[k]].id
                      /\ event.sha1 =
                            <<unwrap(uploaded_files[todo[k]].hash), " | ",
                              unwrap(uploaded_files'[todo[k]].virustotal_result)>>
             /\ get_files_by_missing_virus_total(Db)' =
                   SubSeq(todo, done + 1, Len(todo))]_vars

\* after a pass the first row has its link and one file event, the second
\* row, whose request was answered 429, has no result
C27_Witness ==
    /\ probe.op = "queue"
    /\ probe.pc = "clean"
    /\ Len(uploaded_files) = 2
    /\ uploaded_files[1].virustotal_result = Some(vt_link("h1"))
    /\ uploaded_files[2].virustotal_result = None
    /\ Len(probe.events) = 1
    /\ probe.events[1].file_id = 1
    /\ probe.responses = <<200, 429>>

\* the first piece of a packet
FirstToken(packet) == split_spaces(replace_crlf(packet))[1]

\* C29: a packet that decodes and whose first piece, uppercased, is the name
\* of a verb of Command decodes to that verb, whatever the case it is
\* written in.
C29_VerbMatchingIgnoresCase ==
    (probe.op = "decode" /\ probe.applied /\ probe.request.ok) =>
        LET verb == from_str(to_ascii_uppercase(FirstToken(probe.packet)))
        IN (verb # None /\ unwrap(verb) # "NOT_SUPPORTED")
              => probe.request.command = unwrap(verb)

\* C28: a request to the reputation service that fails is only logged: the
\* housekeeper is never stopped by it, so the tick's clean-up and every later
\* tick still run.
C28_HttpFailureOnlyLogged ==
    probe.op = "queue" => ~(probe.pc = "dead" /\ probe.cause = "http")

\* the on-disk copies of the decoys of every attacker
DecoyCopies == UNION {seed_copies(a.id) : a \in attackers}

\* the on-disk files the UploadedFiles rows point to
UploadLocations ==
    {unwrap(uploaded_files[i].location) :
        i \in {j \in 1..Len(uploaded_files) : is_some(uploaded_files[j].location)}}

\* C31: the files a RETR removes from the disk are neither the seed copy of
\* a decoy nor a persisted upload, under every configuration.
C31_RetrRemovesOnlySynthesized ==
    [][\A c \in LoginConns, argument \in RetrArgs, fault \in TransferFaults :
          retr(c, argument, fault)
             => (disk \ disk') \cap (DecoyCopies \cup UploadLocations) = {}]_vars

\* C32: a mutation a session is answered 257 for leaves the whole cached tree
\* of that session in the attacker row, whatever another session of the same
\* attacker wrote before: the last writer wins.
C32_LastWriterWins ==
    [][\A c \in RaceConns, new_dir \in RaceMkdArgs :
          (mkd(c, new_dir, TRUE) /\ sess'[c].reply = Some(PathnameAvailable))
             => /\ is_some(PersistedRow(c)')
                /\ unwrap(PersistedRow(c)').file_system = Some(SessionFs(c)')]_vars

\* session 1 made /a and was answered 257, session 2 then made /b: the row
\* holds /b and no longer /a
C32_Witness ==
    /\ LoggedIn(1) /\ LoggedIn(2)
    /\ unwrap(sess[1].model).id = unwrap(sess[2].model).id
    /\ sess[1].verb = "MKD" /\ sess[1].reply = Some(PathnameAvailable)
    /\ sess[2].verb = "MKD" /\ sess[2].reply = Some(PathnameAvailable)
    /\ "a" \in DOMAIN SessionFs(1).root.dirs
    /\ "b" \notin DOMAIN SessionFs(1).root.dirs
    /\ LET persisted == unwrap(unwrap(PersistedRow(1)).file_system)
       IN /\ "a" \notin DOMAIN persisted.root.dirs
          /\ "b" \in DOMAIN persisted.root.dirs

\* the attacker rows of the one address of SpecLogins
RowsOfAddress == {a \in attackers : a.ip = "1.2.3.4"}

\* C33: after N PASS commands of the sessions of one address, in any
\* interleaving, the address has one attacker row and its login_count is N.
C33_EveryPassCounted ==
    probe.op = "logins" =>
        /\ Cardinality(RowsOfAddress) <= 1
        /\ \A a \in RowsOfAddress : a.login_count = Len(pass_log)

\* C35: a credentials_id that is set on an attacker row is the same on that
\* row after every step of every session.
C35_BoundCredentialsNeverChange ==
    [][\A a \in attackers : \A b \in attackers' :
          (is_some(a.credentials_id) /\ b.id = a.id)
             => b.credentials_id = a.credentials_id]_vars

Staged(client) == client.data_socket \/ is_some(client.data_addr)

\* a LIST, STOR or RETR of SpecTransfer is handled on connection c
TransferStep(c) ==
    \/ \E argument \in TransferListArgs, fault \in TransferFaults :
          list(c, argument, fault)
    \/ \E argument \in TransferStorArgs, fault \in TransferFaults :
          stor(c, argument, <<7>>, fault)
    \/ \E argument \in RetrArgs, fault \in TransferFaults : retr(c, argument, fault)

\* C36: a LIST, STOR or RETR that a logged-in session gets through, a RETR
\* answered 550 included, leaves the session without a staged target; a
\* target is staged by PORT only; and a PORT stages the target it names,
\* whatever was staged before.
C36_PortTargetSingleUse ==
    [][\A c \in LoginConns :
          /\ (LoggedIn(c) /\ TransferStep(c) /\ sess'[c].pc = "loop")
                => ~Staged(sess'[c])
          /\ (Staged(sess'[c]) /\ sess'[c] # sess[c])
                => Staged(sess[c]) \/ sess'[c].verb = "PORT"
          /\ \A nums \in TransferPortArgs :
                (LoggedIn(c) /\ port(c, nums, TRUE, TRUE))
                   => /\ sess'[c].data_socket
                      /\ sess'[c].data_addr =
                            Some([host |-> SubSeq(nums, 1, 4),
                                  port |-> nums[5] * 256 + nums[6]])]_vars

\* a RETR answered 550 has used up the target PORT had staged
C36_Witness ==
    /\ LoggedIn(1)
    /\ sess[1].verb = "RETR"
    /\ sess[1].reply = Some(DirectoryCreationFailed)
    /\ sess[1].connected
    /\ ~Staged(sess[1])

\* the on-disk files of attacker a when the purge began
FilesAtStart(a) ==
    {unwrap(probe.start[i].location) :
        i \in {j \in 1..Len(probe.start) : probe.start[j].attacker_id = Some(a)}}

\* C37: after a purge an attacker that had files on disk has lost its row
\* exactly if it has lost its files.
C37_PurgeFilesAndRowsAgree ==
    (probe.op = "purge" /\ probe.pc = "done") =>
        \A a \in {1, 2} :
            FilesAtStart(a) # {} =>
                ((\A row \in attackers : row.id # a)
                    <=> FilesAtStart(a) \cap disk = {})

\* an UploadedFiles row of a stale attacker names a file that is no longer on
\* disk
StaleFileMissing ==
    \E i \in 1..Len(uploaded_files) :
        /\ is_some(uploaded_files[i].attacker_id)
        /\ unwrap(uploaded_files[i].attacker_id) \in probe.stale
        /\ is_some(uploaded_files[i].location)
        /\ unwrap(uploaded_files[i].location) \notin disk

\* C38: with uploads kept and a schema that lets the attacker row go, a purge
\* that meets a row whose file is already gone still completes: the stale
\* attackers are deleted and the housekeeper goes on to its next tick.
C38_PurgeSurvivesMissingFile ==
    [][(/\ probe.op = "queue"
        /\ file_upload_real
        /\ probe.on_delete = "cascade"
        /\ StaleFileMissing
        /\ tick_clean_up)
          => /\ probe'.pc = "tick"
             /\ \A row \in attackers' : row.id \notin probe.stale]_vars

\* the row of uploaded_files with this id, if there is one
RowById(files, id) ==
    LET m == {i \in 1..Len(files) : files[i].id = id}
    IN IF m = {} THEN None ELSE Some(files[CHOOSE i \in m : TRUE])

\* C39: over the ticks of the housekeeper a result that is set stays as it
\* is, no two file events are for the same row, and a row a file event was
\* sent for has a result once the pass is over.
C39_ResultSetOnceEventOnce ==
    [][probe.op = "queue" =>
          /\ \A i \in 1..Len(uploaded_files) :
                LET after == RowById(uploaded_files', uploaded_files[i].id)
                IN (is_some(uploaded_files[i].virustotal_result) /\ is_some(after))
                      => unwrap(after).virustotal_result =
                            uploaded_files[i].virustotal_result
          /\ \A j, k \in 1..Len(probe'.events) :
                j # k => probe'.events[j].file_id # probe'.events[k].file_id
          /\ \A j \in 1..Len(probe'.events) :
                LET row == RowById(uploaded_files', probe'.events[j].file_id)
                IN is_some(row) => is_some(unwrap(row).virustotal_result)]_vars

\* the second tick processed the one row the first had left at a 429: two
\* events, one for each row, and both rows have a result
C39_Witness ==
    /\ probe.op = "queue"
    /\ probe.ticks = 1
    /\ probe.pc = "clean"
    /\ Len(probe.responses) = 1
    /\ Len(probe.events) = 2
    /\ probe.events[1].file_id = 1
    /\ probe.events[2].file_id = 2
    /\ Len(uploaded_files) = 2
    /\ \A i \in 1..2 : is_some(uploaded_files[i].virustotal_result)

\* C40: an iteration of the command loop whose read stored nothing leaves
\* the loop through the decode error and decrements the session counter;
\* and once the peer has closed the connection the loop of the session ends.
C40_LoopEndsOnClosedStream ==
    /\ [][\A c \in LoginConns, w \in BOOLEAN :
             (sess[c].pc = "loop" /\ dispatch(c, Zeros, w))
                => /\ sess'[c].pc = "closed"
                   /\ sess'[c].exit = "decode"
                   /\ current_users' = current_users - 1]_vars
    /\ \A c \in LoginConns :
          (probe.op = "eof" /\ ~probe.open /\ sess[c].pc = "loop")
             ~> (sess[c].pc = "closed" /\ sess[c].exit = "decode")

\* the peer closed the connection of a session in its loop, and the loop
\* ended on the decode error with the counter back at 0
C40_Witness ==
    /\ probe.op = "eof"
    /\ ~probe.open
    /\ sess[1].pc = "closed"
    /\ sess[1].exit = "decode"
    /\ current_users = 0

====
